---- MODULE Spec2Model ----
(***************************************************************************)
(* Model of src/types/interfaces.js of the conhos cli: the configuration  *)
(* validator checkConfig and the volume resolver changeConfigFileVolumes. *)
(*                                                                         *)
(* JavaScript strings on which the code runs regular expressions are       *)
(* sequences of one-character strings; strings the code only compares     *)
(* (service type, size, version) are TLA+ strings.  An object is a record  *)
(* with a field "has" naming the properties that are defined on it.        *)
(***************************************************************************)
EXTENDS Integers, Sequences, FiniteSets, TLC

(***************************************************************************)
(* Bounds of the model.                                                    *)
(***************************************************************************)
MaxVolumes == 2

MaxServices == 2

(***************************************************************************)
(* Characters and character classes of the regular expressions.            *)
(***************************************************************************)
Lower == {"a","b","c","d","e","f","g","h","i","j","k","l","m",
          "n","o","p","q","r","s","t","u","v","w","x","y","z"}

Upper == {"A","B","C","D","E","F","G","H","I","J","K","L","M",
          "N","O","P","Q","R","S","T","U","V","W","X","Y","Z"}

Digit == {"0","1","2","3","4","5","6","7","8","9"}

Char == Lower \cup Upper \cup Digit \cup
        {"/", ":", ".", "-", "_", "%", " ", "=", "\\", "!", "#", "]", "^", "+"}

\* a JavaScript value that is a string
IsString(v) == \A k \in 1..Len(v) : v[k] \in Char

\* a volume entry that is not a string (a number in the YAML list)
NonString == <<"<number>">>

\* the character class [/a-zA-Z0-9.\-_] of both volume regular expressions
VolumeChar == Lower \cup Upper \cup Digit \cup {"/", ".", "-", "_"}

\* the character class [a-zA-Z_0-9\-\\.] of filenameReg
FilenameChar == Lower \cup Upper \cup Digit \cup {"_", "-", "\\", "."}

\* the value null of a variable that otherwise holds a string
null == "<null>"

\* result of String.prototype.match that found nothing
NoMatch == <<"<null>">>

\* length of the longest prefix of s made of characters of class
PrefixRun(s, class) ==
  IF \A k \in 1..Len(s) : s[k] \in class THEN Len(s)
  ELSE (CHOOSE k \in 1..Len(s) :
          s[k] \notin class /\ \A j \in 1..(k-1) : s[j] \in class) - 1

\* s without its first n characters
Drop(s, n) == SubSeq(s, n + 1, Len(s))

StartsWith(s, p) == Len(s) >= Len(p) /\ SubSeq(s, 1, Len(p)) = p

EndsWith(s, p) == Len(s) >= Len(p) /\ SubSeq(s, Len(s) - Len(p) + 1, Len(s)) = p

\* JavaScript truthiness of a string
Truthy(s) == Len(s) > 0

Http == <<"h","t","t","p",":","/","/">>

Https == <<"h","t","t","p","s",":","/","/">>

\* volume.match(/^https?:\/\//): the matched prefix
HttpMatch(volume) ==
  IF StartsWith(volume, Http) THEN Http
  ELSE IF StartsWith(volume, Https) THEN Https
  ELSE NoMatch

\* volume.replace(http, ''): the first occurrence of http is the prefix
RemoveHttp(volume, http) == Drop(volume, Len(http))

\* s.match(VOLUME_LOCAL_REGEX): /^[/a-zA-Z0-9.\-_]+:/
VOLUME_LOCAL_REGEX(s) ==
  LET n == PrefixRun(s, VolumeChar)
  IN IF n >= 1 /\ n < Len(s) /\ s[n + 1] = ":" THEN SubSeq(s, 1, n + 1)
     ELSE NoMatch

\* m.replace(VOLUME_LOCAL_POSTFIX_REGEX, ''): /:$/
VOLUME_LOCAL_POSTFIX_REGEX(m) ==
  IF Len(m) > 0 /\ m[Len(m)] = ":" THEN SubSeq(m, 1, Len(m) - 1) ELSE m

\* s.match(VOLUME_REMOTE_REGEX): /:[/a-zA-Z0-9.\-_]+$/, leftmost match
VOLUME_REMOTE_REGEX(s) ==
  LET starts == {p \in 1..Len(s) :
                   /\ s[p] = ":"
                   /\ p < Len(s)
                   /\ \A j \in (p+1)..Len(s) : s[j] \in VolumeChar}
  IN IF starts = {} THEN NoMatch
     ELSE LET p == CHOOSE q \in starts : \A r \in starts : q <= r
          IN SubSeq(s, p, Len(s))

\* m.replace(VOLUME_REMOTE_PREFIX_REGEX, ''): /^:/
VOLUME_REMOTE_PREFIX_REGEX(m) ==
  IF Len(m) > 0 /\ m[1] = ":" THEN Drop(m, 1) ELSE m

\* local.match(filenameReg): /\/?[a-zA-Z_0-9\-\\.]+$/, leftmost match
filenameReg(local) ==
  LET starts == {p \in 1..Len(local) :
                   \/ \A j \in p..Len(local) : local[j] \in FilenameChar
                   \/ /\ local[p] = "/"
                      /\ p < Len(local)
                      /\ \A j \in (p+1)..Len(local) : local[j] \in FilenameChar}
  IN IF starts = {} THEN NoMatch
     ELSE LET p == CHOOSE q \in starts : \A r \in starts : q <= r
          IN SubSeq(local, p, Len(local))

\* m.replace(/^\//, '')
RemoveLeadingSlash(m) ==
  IF Len(m) > 0 /\ m[1] = "/" THEN Drop(m, 1) ELSE m

\* path.isAbsolute of the posix path module
isAbsolute(p) == Len(p) > 0 /\ p[1] = "/"

\* p without its trailing slashes
RECURSIVE StripTrailingSlashes(_)
StripTrailingSlashes(p) ==
  IF Len(p) > 0 /\ p[Len(p)] = "/"
  THEN StripTrailingSlashes(SubSeq(p, 1, Len(p) - 1))
  ELSE p

\* path.basename of the posix path module
basename(p) ==
  LET q == StripTrailingSlashes(p)
      slashes == {k \in 1..Len(q) : q[k] = "/"}
  IN IF slashes = {} THEN q
     ELSE Drop(q, CHOOSE k \in slashes : \A j \in slashes : j <= k)

\* os.tmpdir()
tmpdir == <<"/","t","m","p">>

\* path.resolve(dir, name) for an absolute dir and a name that has no "." or
\* ".." segment and no doubled or trailing slash (nothing to normalise)
resolve(dir, name) == IF isAbsolute(name) THEN name ELSE dir \o <<"/">> \o name

\* s has the substring sub at position p
MatchAt(s, p, sub) ==
  /\ p >= 1
  /\ p + Len(sub) - 1 <= Len(s)
  /\ \A k \in 1..Len(sub) : s[p + k - 1] = sub[k]

\* s.indexOf(sub), counted from 1; 0 when sub does not occur
IndexOf(s, sub) ==
  IF \E p \in 1..Len(s) : MatchAt(s, p, sub)
  THEN CHOOSE p \in 1..Len(s) :
         MatchAt(s, p, sub) /\ \A q \in 1..(p-1) : ~MatchAt(s, q, sub)
  ELSE 0

\* s.replace(sub, ''): the first occurrence of sub removed
RemoveFirst(s, sub) ==
  IF IndexOf(s, sub) = 0 THEN s
  ELSE SubSeq(s, 1, IndexOf(s, sub) - 1) \o Drop(s, IndexOf(s, sub) + Len(sub) - 1)

\* the value of a string of decimal digits
RECURSIVE DigitsValue(_)
DigitsValue(s) ==
  IF Len(s) = 0 THEN 0
  ELSE 10 * DigitsValue(SubSeq(s, 1, Len(s) - 1))
       + (CHOOSE d \in 0..9 : <<"0","1","2","3","4","5","6","7","8","9">>[d + 1] = s[Len(s)])

\* Number.isNaN(parseInt(s, 10)): no digit after the blanks and the sign
ParseIntIsNaN(s) ==
  LET blanks == PrefixRun(s, {" "})
      t == Drop(s, blanks)
      u == IF Len(t) > 0 /\ t[1] \in {"-", "+"} THEN Drop(t, 1) ELSE t
  IN ~(Len(u) > 0 /\ u[1] \in Digit)

(***************************************************************************)
(* Environment variables.                                                  *)
(***************************************************************************)
EnvNameChar == Lower \cup Upper \cup Digit \cup {"_"}

\* nameReg.test(item): /^[A-Za-z0-9_]+=/
nameReg(item) ==
  LET n == PrefixRun(item, EnvNameChar)
  IN IsString(item) /\ n >= 1 /\ n < Len(item) /\ item[n + 1] = "="

\* getEnvironmentValue(item): item.replace(nameReg, ''), or null
getEnvironmentValue(item) ==
  IF nameReg(item) THEN Drop(item, PrefixRun(item, EnvNameChar) + 1) ELSE NoMatch

\* getEnvironmentName(name): name.replace(/=.*/, ''), or null
getEnvironmentName(name) ==
  IF nameReg(name) THEN SubSeq(name, 1, IndexOf(name, <<"=">>) - 1) ELSE NoMatch

\* parseEnvironmentVariable(variable): null when name or value is missing
parseEnvironmentVariable(variable) ==
  LET name == getEnvironmentName(variable)
      value == getEnvironmentValue(variable)
  IN IF name = NoMatch \/ value = NoMatch \/ Len(name) = 0 \/ Len(value) = 0
     THEN [isNull |-> TRUE, name |-> <<>>, value |-> <<>>]
     ELSE [isNull |-> FALSE, name |-> name, value |-> value]

(***************************************************************************)
(* Git urls.                                                               *)
(***************************************************************************)
\* the regular expression matches at p; its unescaped dot is any character
GitHostAt(url, p, host) ==
  /\ MatchAt(url, p, <<"h","t","t","p","s",":","/","/">> \o host)
  /\ p + Len(<<"h","t","t","p","s",":","/","/">>) + Len(host) <= Len(url)
  /\ MatchAt(url, p + Len(<<"h","t","t","p","s",":","/","/">>) + Len(host) + 1, <<"c","o","m">>)

\* checkGitType(url): /https:\/\/github.com/ and /https:\/\/gitlab.com/
checkGitType(url) ==
  IF \E p \in 1..Len(url) : GitHostAt(url, p, <<"g","i","t","l","a","b">>) THEN "gitlab"
  ELSE IF \E p \in 1..Len(url) : GitHostAt(url, p, <<"g","i","t","h","u","b">>) THEN "github"
  ELSE null

\* cleanGitPostfix(url): url.replace(/\.git/, '')
cleanGitPostfix(url) == RemoveFirst(url, <<".","g","i","t">>)

GitPathChar == Lower \cup Upper \cup Digit \cup {"_", "-"}

\* s.match(lastPathReg): /\/[a-zA-Z0-9_-]+$/
lastPathReg(s) ==
  LET starts == {p \in 1..Len(s) :
                   /\ s[p] = "/"
                   /\ p < Len(s)
                   /\ \A j \in (p+1)..Len(s) : s[j] \in GitPathChar}
  IN IF starts = {} THEN NoMatch
     ELSE SubSeq(s, CHOOSE q \in starts : \A r \in starts : q <= r, Len(s))

\* parseGitUrl(url)
parseGitUrl(url) ==
  LET repoM == lastPathReg(cleanGitPostfix(url))
      rest == SubSeq(cleanGitPostfix(url), 1,
                     Len(cleanGitPostfix(url)) - Len(repoM))
      userM == lastPathReg(rest)
  IN IF repoM = NoMatch \/ userM = NoMatch
     THEN [isNull |-> TRUE, user |-> <<>>, project |-> <<>>]
     ELSE [isNull |-> FALSE, user |-> RemoveLeadingSlash(userM),
           project |-> RemoveLeadingSlash(repoM)]

GIT_UNTRACKED_POLICY == {"merge", "checkout", "push"}

(***************************************************************************)
(* Objects.  A property that is not in "has" is undefined.                 *)
(***************************************************************************)
NoGit == [has |-> {}, url |-> <<>>, branch |-> <<>>, untracked |-> ""]

\* a service entry with no property defined
EmptyService ==
  [isNull |-> FALSE, has |-> {}, type |-> "", size |-> "", version |-> "",
   active |-> FALSE, pwd |-> <<>>, command |-> <<>>, ports |-> <<>>,
   volumes |-> <<>>, depends_on |-> <<>>, domains |-> <<>>,
   environment |-> <<>>, git |-> NoGit]

\* a service entry that is null ("name:" with nothing under it in the YAML)
NullService == [EmptyService EXCEPT !.isNull = TRUE]

\* obj.f = v
Set(obj, f, v) == [obj EXCEPT ![f] = v, !.has = @ \cup {f}]

\* obj.f = undefined
Unset(obj, f) == [obj EXCEPT !.has = @ \ {f}]

Has(obj, f) == f \in obj.has

\* truthiness of a string property
TruthyStr(obj, f) == Has(obj, f) /\ Len(obj[f]) > 0

\* Object.keys(services)
Keys(services) == [k \in 1..Len(services) |-> services[k].key]

\* services[key]: the value held under the key (an object has a key once)
HasKey(services, key) == \E k \in 1..Len(services) : services[k].key = key

Lookup(services, key) ==
  services[CHOOSE k \in 1..Len(services) :
             /\ services[k].key = key
             /\ \A j \in (k+1)..Len(services) : services[j].key # key].val

\* the list appended to the declared one instead of replacing it
SetVolumes_append(services, key, defined, list) ==
  [k \in 1..Len(services) |->
     IF services[k].key = key
     THEN [key |-> key,
           val |-> [services[k].val EXCEPT !.volumes = @ \o list]]
     ELSE services[k]]

\* services[key].volumes = list, or = undefined when list is not defined
SetVolumes(services, key, defined, list) ==
  [k \in 1..Len(services) |->
     IF services[k].key = key
     THEN [key |-> key,
           val |-> IF defined THEN Set(services[k].val, "volumes", list)
                   ELSE Unset(services[k].val, "volumes")]
     ELSE services[k]]

\* services[key].volumes.push(entry)
PushVolume(services, key, entry) ==
  [k \in 1..Len(services) |->
     IF services[k].key = key /\ Has(services[k].val, "volumes")
     THEN [key |-> key,
           val |-> [services[k].val EXCEPT !.volumes = Append(@, entry)]]
     ELSE services[k]]

(***************************************************************************)
(* getFile: a response is the outcome of fetch(url) and the lengths of the *)
(* chunks its body streams.                                                *)
(***************************************************************************)
VOLUME_UPLOAD_MAX_SIZE == 100000

\* readStream: the reads that follow once totalBytes bytes have been taken
RECURSIVE readStream(_, _, _, _)
readStream(chunks, n, totalBytes, maxSize) ==
  IF n > Len(chunks)
  THEN [resolved |-> TRUE, message |-> "", bytes |-> totalBytes]
  ELSE IF totalBytes + chunks[n] > maxSize
       THEN [resolved |-> FALSE,
             message |-> "Response size exceeds the maximum limit",
             bytes |-> 0]
       ELSE readStream(chunks, n + 1, totalBytes + chunks[n], maxSize)

getFile(response, maxSize) ==
  IF ~response.fetched
  THEN [resolved |-> FALSE, message |-> "fetch failed", bytes |-> 0]
  ELSE IF ~response.ok
  THEN [resolved |-> FALSE, message |-> "HTTP error! status", bytes |-> 0]
  ELSE IF ~response.body
  THEN [resolved |-> FALSE, message |-> "Response body is unused", bytes |-> 0]
  ELSE readStream(response.chunks, 1, 0, maxSize)

\* the responses the network may give to one fetch
Responses ==
  { [fetched |-> FALSE, ok |-> FALSE, body |-> FALSE, chunks |-> <<>>],
    [fetched |-> TRUE, ok |-> FALSE, body |-> TRUE, chunks |-> <<>>],
    [fetched |-> TRUE, ok |-> TRUE, body |-> FALSE, chunks |-> <<>>],
    [fetched |-> TRUE, ok |-> TRUE, body |-> TRUE, chunks |-> <<>>],
    [fetched |-> TRUE, ok |-> TRUE, body |-> TRUE, chunks |-> <<60000, 40000>>],
    [fetched |-> TRUE, ok |-> TRUE, body |-> TRUE, chunks |-> <<60000, 40001>>] }

(***************************************************************************)
(* State.                                                                  *)
(***************************************************************************)
VARIABLES
  heap,         \* the objects: heap.config is the caller's config
  userId,       \* argument of changeConfigFileVolumes
  volumes,      \* argument of changeConfigFileVolumes
  fsAvailable,  \* typeof window === 'undefined' && APP_PORT === undefined
  fs,           \* the module-level filesystem handle
  imports,      \* the number of import('fs') performed so far
  pcVol,        \* position of changeConfigFileVolumes
  _config,      \* the object _config refers to
  _volumes,     \* the map _volumes
  error,        \* the local variable error
  iVol,         \* the index i over serviceKeys
  _iVol,        \* the index _i over the volume list
  __volumes,    \* the volume list __volumes of the service being processed
  pending,      \* the entry whose getFile is awaited
  fetched,      \* the urls given to fetch, in order
  written,      \* the writeFileSync calls, in order
  result,       \* what changeConfigFileVolumes returned
  call,         \* the number of the call of changeConfigFileVolumes
  deployData,   \* argument of checkConfig: the catalog, or null
  isServer,     \* argument of checkConfig
  disk,         \* the files of the local filesystem
  pcCheck,      \* position of checkConfig
  iCheck,       \* the index i over serviceKeys in checkConfig
  _iCheck,      \* the index _i over the volume list in checkConfig
  res,          \* the list res of checkConfig; once returned, its result
  pcPure,       \* position of the call of a function without side effect
  args,         \* the arguments of that call
  ret           \* what that call returned

vars == <<heap, userId, volumes, fsAvailable, fs, imports, pcVol, _config, _volumes,
          error, iVol, _iVol, __volumes, pending, fetched, written, result, call,
          deployData, isServer, disk, pcCheck, iCheck, _iCheck, res,
          pcPure, args, ret>>

\* the variables of the call of a function without side effect
pureVars == <<pcPure, args, ret>>

\* the variables of checkConfig alone
checkVars == <<deployData, isServer, disk, pcCheck, iCheck, _iCheck, res>>

\* the variables of changeConfigFileVolumes alone
volVars == <<userId, volumes, pcVol, _config, _volumes, error, iVol, _iVol,
             __volumes, pending, fetched, written, result, call>>

NoPending == [http |-> <<>>, volume |-> <<>>, local |-> <<>>,
              filename |-> <<>>, remote |-> <<>>]

NoResult == [config |-> "", volumes |-> [defined |-> FALSE, map |-> <<>>],
             error |-> null]

\* structuredClone left out: _config is the caller's object
structuredClone_alias(ref) == ref

\* structuredClone(config): a new object
structuredClone(ref) == "clone"

(***************************************************************************)
(* changeConfigFileVolumes({ config, userId }, volumes)                    *)
(***************************************************************************)
\* return { config, volumes, error } before any service is looked at
ccfv_fail(message) ==
  /\ result' = [config |-> "config", volumes |-> volumes, error |-> message]
  /\ pcVol' = "returned"
  /\ UNCHANGED iVol

\* the checks in front of the loops
ccfv_enter ==
  /\ pcVol = "call"
  /\ _config' = structuredClone("config")
  /\ heap' = [heap EXCEPT ![structuredClone("config")] = heap.config]
  /\ IF ~TruthyStr(heap.config, "name")
     THEN ccfv_fail("Project name is missing in config")
     ELSE IF ~Has(heap.config, "services")
     THEN ccfv_fail("Field services is missing in config")
     ELSE IF ~volumes.defined
     THEN IF ~Truthy(userId)
          THEN ccfv_fail("User id is missing in changeVolumes")
          ELSE pcVol' = "service" /\ iVol' = 1 /\ UNCHANGED result
     ELSE pcVol' = "replay" /\ iVol' = 1 /\ UNCHANGED result
  /\ UNCHANGED <<userId, volumes, fsAvailable, fs, imports, _volumes, error, _iVol,
                 __volumes, pending, fetched, written, call>>
  /\ UNCHANGED checkVars
  /\ UNCHANGED pureVars

\* one turn of the outer loop of materialize mode, up to its inner loop
ccfv_service ==
  /\ pcVol = "service"
  /\ LET services == heap.config.services
         serviceKeys == Keys(services)
     IN IF iVol > Len(serviceKeys) \/ ~Truthy(serviceKeys[iVol]) \/ error # null
        THEN /\ pcVol' = "return"
             /\ UNCHANGED <<heap, _volumes, iVol, _iVol, __volumes>>
        ELSE LET serviceKey == serviceKeys[iVol]
                 service == Lookup(services, serviceKey)
             IN IF service.isNull
                THEN /\ pcVol' = "threw"
                     /\ UNCHANGED <<heap, _volumes, iVol, _iVol, __volumes>>
                ELSE IF Has(service, "volumes")
                THEN /\ heap' = [heap EXCEPT ![_config].services =
                                   SetVolumes(@, serviceKey, TRUE, <<>>)]
                     /\ _volumes' = [k \in DOMAIN _volumes \cup {serviceKey} |->
                                       IF k = serviceKey THEN <<>> ELSE _volumes[k]]
                     /\ __volumes' = service.volumes
                     /\ _iVol' = 1
                     /\ pcVol' = "volume"
                     /\ UNCHANGED iVol
                ELSE /\ iVol' = iVol + 1
                     /\ UNCHANGED <<heap, _volumes, _iVol, __volumes, pcVol>>
  /\ UNCHANGED <<userId, volumes, fsAvailable, fs, imports, _config, error, pending,
                 fetched, written, result, call>>
  /\ UNCHANGED checkVars
  /\ UNCHANGED pureVars

\* the error is recorded and the inner loop goes on with the next entry
ccfv_break_continue(message) ==
  /\ error' = message
  /\ _iVol' = _iVol + 1
  /\ UNCHANGED <<heap, iVol, pcVol, pending, fetched>>

\* break out of the inner loop with an error
ccfv_break(message) ==
  /\ error' = message
  /\ iVol' = iVol + 1
  /\ pcVol' = "service"
  /\ UNCHANGED <<heap, _iVol, pending, fetched>>

\* one turn of the inner loop, up to the call of getFile
ccfv_volume ==
  /\ pcVol = "volume"
  /\ LET serviceKey == Keys(heap.config.services)[iVol]
     IN IF _iVol > Len(__volumes) \/ ~Truthy(__volumes[_iVol])
        THEN /\ iVol' = iVol + 1
             /\ pcVol' = "service"
             /\ UNCHANGED <<heap, error, _iVol, pending, fetched>>
        ELSE IF ~IsString(__volumes[_iVol])
        THEN /\ pcVol' = "threw"
             /\ UNCHANGED <<heap, error, iVol, _iVol, pending, fetched>>
        ELSE LET httpM == HttpMatch(__volumes[_iVol])
                 volume == RemoveHttp(__volumes[_iVol], httpM)
                 localM == VOLUME_LOCAL_REGEX(volume)
                 local == VOLUME_LOCAL_POSTFIX_REGEX(localM)
                 filenameM == filenameReg(local)
                 remoteM == VOLUME_REMOTE_REGEX(volume)
             IN IF httpM = NoMatch
                THEN /\ heap' = [heap EXCEPT ![_config].services =
                                   PushVolume(@, serviceKey, __volumes[_iVol])]
                     /\ _iVol' = _iVol + 1
                     /\ UNCHANGED <<error, iVol, pcVol, pending, fetched>>
                ELSE IF localM = NoMatch
                THEN ccfv_break("Volume local has wrong value")
                ELSE IF filenameM = NoMatch
                THEN ccfv_break("Local value of volume has wrong filename")
                ELSE IF remoteM = NoMatch
                THEN ccfv_break("Volume remote has wrong value")
                ELSE /\ pending' = [http |-> httpM, volume |-> volume,
                                    local |-> local,
                                    filename |-> RemoveLeadingSlash(filenameM),
                                    remote |-> VOLUME_REMOTE_PREFIX_REGEX(remoteM)]
                     /\ fetched' = Append(fetched, httpM \o local)
                     /\ pcVol' = "getFile"
                     /\ UNCHANGED <<heap, error, iVol, _iVol>>
  /\ UNCHANGED <<userId, volumes, fsAvailable, fs, imports, _config, _volumes,
                 __volumes, written, result, call>>
  /\ UNCHANGED checkVars
  /\ UNCHANGED pureVars

\* the service name left out of the name of the temporary file
tmpFilePath_noService(user, name, serviceKey, filename) ==
  resolve(tmpdir, user \o <<"_">> \o name \o <<"_">> \o filename)

\* `${userId}_${name}_${serviceKey}_${filename}` under the temporary directory
tmpFilePath(user, name, serviceKey, filename) ==
  resolve(tmpdir, user \o <<"_">> \o name \o <<"_">> \o serviceKey
                       \o <<"_">> \o filename)

\* the awaited getFile settles; the file is written and the entry rewritten
ccfv_getFile ==
  /\ pcVol = "getFile"
  /\ \E response \in Responses :
       LET file == getFile(response, VOLUME_UPLOAD_MAX_SIZE)
           serviceKey == Keys(heap.config.services)[iVol]
           path == tmpFilePath(userId, heap.config.name, serviceKey,
                               pending.filename)
           handle == IF fs # null THEN fs
                     ELSE IF fsAvailable THEN "fs" ELSE null
       IN IF ~file.resolved
          THEN /\ error' = file.message
               /\ iVol' = iVol + 1
               /\ pcVol' = "service"
               /\ UNCHANGED <<heap, fs, imports, _volumes, _iVol, written>>
          ELSE /\ fs' = handle
               /\ imports' = IF fs = null /\ fsAvailable
                             THEN imports + 1 ELSE imports
               /\ written' = IF handle # null
                             THEN Append(written, [path |-> path,
                                                   bytes |-> file.bytes])
                             ELSE written
               /\ heap' = [heap EXCEPT ![_config].services =
                             PushVolume(@, serviceKey,
                                        path \o <<":">> \o pending.remote)]
               /\ _volumes' = [_volumes EXCEPT ![serviceKey] =
                                 Append(@, pending.http \o pending.volume)]
               /\ _iVol' = _iVol + 1
               /\ pcVol' = "volume"
               /\ UNCHANGED <<error, iVol>>
  /\ pending' = NoPending
  /\ UNCHANGED <<userId, volumes, fsAvailable, _config, __volumes, fetched,
                 result, call>>
  /\ UNCHANGED checkVars
  /\ UNCHANGED pureVars

\* one turn of the loop of replay mode
ccfv_replay ==
  /\ pcVol = "replay"
  /\ LET services == heap.config.services
         serviceKeys == Keys(services)
     IN IF iVol > Len(serviceKeys) \/ ~Truthy(serviceKeys[iVol]) \/ error # null
        THEN pcVol' = "return" /\ UNCHANGED <<heap, iVol>>
        ELSE LET serviceKey == serviceKeys[iVol]
                 service == Lookup(services, serviceKey)
             IN IF service.isNull
                THEN pcVol' = "threw" /\ UNCHANGED <<heap, iVol>>
                ELSE /\ heap' = IF Has(service, "volumes")
                                THEN [heap EXCEPT ![_config].services =
                                        SetVolumes(@, serviceKey,
                                          serviceKey \in DOMAIN volumes.map,
                                          IF serviceKey \in DOMAIN volumes.map
                                          THEN volumes.map[serviceKey]
                                          ELSE <<>>)]
                                ELSE heap
                     /\ iVol' = iVol + 1
                     /\ UNCHANGED pcVol
  /\ UNCHANGED <<userId, volumes, fsAvailable, fs, imports, _config, _volumes, error,
                 _iVol, __volumes, pending, fetched, written, result, call>>
  /\ UNCHANGED checkVars
  /\ UNCHANGED pureVars

\* return { config: _config, volumes: _volumes, error: null }
ccfv_return ==
  /\ pcVol = "return"
  /\ result' = [config |-> _config,
                volumes |-> [defined |-> TRUE, map |-> _volumes],
                error |-> null]
  /\ pcVol' = "returned"
  /\ UNCHANGED <<heap, userId, volumes, fsAvailable, fs, imports, _config, _volumes,
                 error, iVol, _iVol, __volumes, pending, fetched, written,
                 call>>
  /\ UNCHANGED checkVars
  /\ UNCHANGED pureVars

\* the caller deploys again: the map returned by materialize mode is replayed
\* on the same config
ccfv_again ==
  /\ pcVol = "returned"
  /\ call = 1
  /\ ~volumes.defined
  /\ result.error = null
  /\ call' = 2
  /\ volumes' = result.volumes
  /\ pcVol' = "call"
  /\ _volumes' = <<>>
  /\ error' = null
  /\ iVol' = 0
  /\ _iVol' = 0
  /\ __volumes' = <<>>
  /\ fetched' = <<>>
  /\ written' = <<>>
  /\ result' = NoResult
  /\ UNCHANGED <<heap, userId, fsAvailable, fs, imports, _config, pending>>
  /\ UNCHANGED checkVars
  /\ UNCHANGED pureVars

(***************************************************************************)
(* Inputs of changeConfigFileVolumes.                                      *)
(***************************************************************************)
K_a == <<"a">>

K_b == <<"b">>

\* f:/r
V_local == <<"f",":","/","r">>

\* https://h/f:/r
V_https == Https \o <<"h","/","f",":","/","r">>

\* http://h/g:/r
V_http == Http \o <<"h","/","g",":","/","r">>

\* "https://h f:/r": the local part has a space
V_badLocal == Https \o <<"h"," ","f",":","/","r">>

\* https://h/:/r : the local part has no file name
V_badName == Https \o <<"h","/",":","/","r">>

\* https://h/f:/r! : the remote part has an exclamation mark
V_badRemote == Https \o <<"h","/","f",":","/","r","!">>

VolumeInputs == {V_local, V_https, V_http, V_badLocal, V_badName, V_badRemote}

\* the lists of at most n volume entries
VolumeLists(n) == UNION {[1..m -> VolumeInputs] : m \in 0..n}

NoServer == [has |-> {}, node_name |-> <<>>]

\* an active node service
NodeService ==
  Set(Set(Set(Set(Set(EmptyService, "type", "node"), "size", "mili"),
              "version", "latest"), "active", TRUE), "pwd", <<".","/">>)

\* the service with or without a volume list
WithVolumes(service, defined, list) ==
  IF defined THEN Set(service, "volumes", list) ELSE service

\* the volume lists of a service: none, or a list
VolumeChoices(n) ==
  {[defined |-> FALSE, list |-> <<>>]}
    \cup {[defined |-> TRUE, list |-> l] : l \in VolumeLists(n)}

Config(name, services) ==
  [has |-> {"name", "services"}, name |-> name, services |-> services,
   server |-> NoServer]

\* one or two services; the second has at most one volume
VolConfigs ==
  {Config(<<"p">>, <<[key |-> K_a, val |-> WithVolumes(NodeService, a.defined, a.list)]>>)
     : a \in VolumeChoices(MaxVolumes)}
  \cup
  {Config(<<"p">>, <<[key |-> K_a, val |-> WithVolumes(NodeService, a.defined, a.list)],
                     [key |-> K_b, val |-> WithVolumes(NodeService, b.defined, b.list)]>>)
     : a \in VolumeChoices(MaxVolumes), b \in VolumeChoices(1)}

\* configs that miss a required field
VolBadConfigs ==
  LET c == Config(<<"p">>, <<[key |-> K_a,
                              val |-> Set(NodeService, "volumes", <<V_local>>)]>>)
  IN {Unset(c, "name"), Set(c, "name", <<>>), Unset(c, "services")}

NoVolumes == [defined |-> FALSE, map |-> <<>>]

\* the maps given as the argument volumes
VolumeMaps ==
  { [defined |-> TRUE, map |-> <<>>],
    [defined |-> TRUE, map |-> [k \in {K_a} |-> <<V_local>>]],
    [defined |-> TRUE, map |-> [k \in {K_a, K_b} |->
                                  IF k = K_a THEN <<V_https, V_local>> ELSE <<>>]] }

NoDeployData == [defined |-> FALSE, sizes |-> <<>>, services |-> <<>>]

Unallocated == [has |-> {}, name |-> <<>>, services |-> <<>>, server |-> NoServer]

InitVol ==
  /\ \E c \in VolConfigs \cup VolBadConfigs :
       heap = [config |-> c, clone |-> Unallocated]
  /\ \/ userId = <<"u">> /\ volumes = NoVolumes /\ fsAvailable \in BOOLEAN
     \/ userId = <<>> /\ volumes = NoVolumes /\ fsAvailable = TRUE
     \/ userId \in {<<>>, <<"u">>} /\ volumes \in VolumeMaps /\ fsAvailable = TRUE
  /\ fs = null
  /\ pcVol = "call"
  /\ _config = ""
  /\ _volumes = <<>>
  /\ error = null
  /\ iVol = 0
  /\ _iVol = 0
  /\ __volumes = <<>>
  /\ pending = NoPending
  /\ fetched = <<>>
  /\ written = <<>>
  /\ result = NoResult
  /\ call = 1
  /\ pcPure = "idle"
  /\ args = <<>>
  /\ ret = <<>>
  /\ deployData = NoDeployData
  /\ isServer = FALSE
  /\ disk = {}
  /\ pcCheck = "idle"
  /\ iCheck = 0
  /\ _iCheck = 0
  /\ imports = 0
  /\ res = <<>>

NextVol ==
  \/ ccfv_enter
  \/ ccfv_service
  \/ ccfv_volume
  \/ ccfv_getFile
  \/ ccfv_replay
  \/ ccfv_return
  \/ ccfv_again

SpecVol == InitVol /\ [][NextVol]_vars

(***************************************************************************)
(* Properties of changeConfigFileVolumes.                                  *)
(***************************************************************************)
IsHttp(entry) == StartsWith(entry, Http) \/ StartsWith(entry, Https)

\* the entry without its scheme
AfterScheme(entry) ==
  IF StartsWith(entry, Https) THEN Drop(entry, Len(Https))
  ELSE IF StartsWith(entry, Http) THEN Drop(entry, Len(Http))
  ELSE entry

\* the positions of the colons of s
Colons(s) == {k \in 1..Len(s) : s[k] = ":"}

\* <local>:<remote> with both parts non-empty path tokens
WellFormedPair(s) ==
  /\ Cardinality(Colons(s)) = 1
  /\ \A k \in 1..Len(s) : s[k] \in VolumeChar \cup {":"}
  /\ \A k \in Colons(s) : 1 < k /\ k < Len(s)

LocalOf(s) == SubSeq(s, 1, (CHOOSE k \in Colons(s) : TRUE) - 1)

RemoteOf(s) == Drop(s, CHOOSE k \in Colons(s) : TRUE)

\* an http(s) entry that materialize mode cannot parse
Malformed(entry) ==
  /\ IsHttp(entry)
  /\ \/ ~WellFormedPair(AfterScheme(entry))
     \/ LocalOf(AfterScheme(entry))[Len(LocalOf(AfterScheme(entry)))] = "/"

\* the volume list of a service, defined or not
VolumesOf(service) ==
  [defined |-> Has(service, "volumes"),
   list |-> IF Has(service, "volumes") THEN service.volumes ELSE <<>>]

\* some declared entry of the config is malformed
HasMalformed(config) ==
  /\ Has(config, "services")
  /\ \E s \in 1..Len(config.services) :
       /\ Has(config.services[s].val, "volumes")
       /\ \E j \in 1..Len(config.services[s].val.volumes) :
            Malformed(config.services[s].val.volumes[j])

MaterializeReturned == pcVol = "returned" /\ ~volumes.defined

ReplayReturned == pcVol = "returned" /\ volumes.defined

\* C3: in materialize mode a malformed http(s) entry or a fetch that failed
\* or went over the cap gives a result whose error is a non-null string
C3_ErrorReturned ==
  (MaterializeReturned /\ (HasMalformed(heap.config) \/ error # null))
    => result.error # null

\* C4: the config object given to changeConfigFileVolumes is never written:
\* every step of either mode leaves it as it was
C4_ConfigNotMutated == [][heap.config' = heap.config]_vars

\* C4 witness: a call returned a rewritten copy that differs from the input
C4_Witness ==
  /\ pcVol = "returned"
  /\ result.config = "clone"
  /\ heap.clone.services # heap.config.services

\* C5: in materialize mode every entry without http(s) prefix is at the same
\* position of the same service in the returned config
C5_LocalEntriesKept ==
  MaterializeReturned =>
    \A s \in 1..Len(heap.config.services) :
      LET declared == VolumesOf(heap.config.services[s].val)
          returned == VolumesOf(heap[result.config].services[s].val)
      IN \A j \in 1..Len(declared.list) :
           ~IsHttp(declared.list[j]) =>
             /\ j <= Len(returned.list)
             /\ returned.list[j] = declared.list[j]

\* the rewritten form of a well-formed http(s) entry of service key
Rewritten(entry, key) ==
  tmpdir \o <<"/">> \o userId \o <<"_">> \o heap.config.name \o <<"_">> \o key
         \o <<"_">> \o basename(LocalOf(AfterScheme(entry)))
         \o <<":">> \o RemoteOf(AfterScheme(entry))

\* C6: in materialize mode every fetched well-formed http(s) entry is replaced
\* at its position by <tempPath>:<remote>, and the returned map holds the
\* original http(s) strings of the service in declaration order
C6_RemoteEntriesRewritten ==
  (MaterializeReturned /\ result.config = "clone") =>
    \A s \in 1..Len(heap.config.services) :
      LET key == heap.config.services[s].key
          declared == heap.config.services[s].val.volumes
          returned == heap.clone.services[s].val.volumes
      IN key \in DOMAIN result.volumes.map =>
           /\ Len(returned) <= Len(declared)
           /\ \A j \in 1..Len(returned) :
                (IsHttp(declared[j]) /\ ~Malformed(declared[j]))
                  => returned[j] = Rewritten(declared[j], key)
           /\ result.volumes.map[key] =
                SelectSeq(SubSeq(declared, 1, Len(returned)), IsHttp)

\* C6 witness: two remote entries of one service were fetched and rewritten
C6_Witness ==
  /\ MaterializeReturned
  /\ result.config = "clone"
  /\ K_a \in DOMAIN result.volumes.map
  /\ result.volumes.map[K_a] = <<V_https, V_http>>
  /\ Len(written) = 2

\* the list the map gives for a service
Supplied(key) ==
  [defined |-> key \in DOMAIN volumes.map,
   list |-> IF key \in DOMAIN volumes.map THEN volumes.map[key] ELSE <<>>]

\* what replay mode is to return for the map volumes
Replayed ==
  /\ fetched = <<>>
  /\ written = <<>>
  /\ \A s \in 1..Len(heap.config.services) :
       LET declared == heap.config.services[s].val
           returned == heap[result.config].services[s].val
       IN IF Has(declared, "volumes")
          THEN VolumesOf(returned) = Supplied(heap.config.services[s].key)
          ELSE returned = declared

\* C7 as claimed: every call with a map returns the supplied lists
C7_ReplayAlways == (ReplayReturned /\ Has(heap.config, "services")) => Replayed

\* C7 amended: a call with a map that returns no error returns, for every
\* service that declares volumes, exactly the supplied list, fetches and writes
\* nothing and leaves the other services as they are
C7_ReplayRoundTrip == (ReplayReturned /\ result.error = null) => Replayed

\* C7 witness: the map produced by materialize mode was replayed
C7_Witness ==
  /\ ReplayReturned
  /\ call = 2
  /\ result.error = null
  /\ K_a \in DOMAIN volumes.map
  /\ volumes.map[K_a] = <<V_https, V_http>>
  /\ heap.clone.services[1].val.volumes = <<V_https, V_http>>

(***************************************************************************)
(* checkConfig: constants and helpers.                                     *)
(***************************************************************************)
undefined == "<undefined>"

COUNT_OF_VOLUMES_MAX == 10

BUFFER_SIZE_MAX == 512

DOMAIN_MAX_LENGTH == 77

PWD_DEFAULT == <<".","/">>

DEFAULT_LOCATION == <<"/">>

SERVICES_CUSTOM == <<"node", "rust", "python", "golang", "php">>

SERVICES_COMMON == <<"redis", "postgres", "mysql", "mariadb", "mongo",
                     "rabbitmq", "adminer", "phpmyadmin", "pgadmin",
                     "mongo_express">>

SERVICES_COMMON_PUBLIC == <<"adminer", "phpmyadmin", "pgadmin", "mongo_express">>

SERVICE_TYPES == SERVICES_COMMON \o SERVICES_CUSTOM

PORT_TYPES == <<"http", "php", "chunked", "ws">>

PORT_TIMEOUTS == {<<"m","s">>, <<"s">>, <<"m">>, <<"h">>, <<"d">>, <<"w">>, <<"M">>, <<"y">>}

\* the elements of a list
Range(list) == {list[k] : k \in 1..Len(list)}

MYSQL_ROOT_PASSWORD == <<"M","Y","S","Q","L","_","R","O","O","T","_","P","A","S","S","W","O","R","D">>

ENVIRONMENT_REQUIRED_COMMON(type) ==
  CASE type = "redis" -> <<<<"R","E","D","I","S","_","P","A","S","S","W","O","R","D">>>>
    [] type = "postgres" -> <<<<"P","O","S","T","G","R","E","S","_","P","A","S","S","W","O","R","D">>, <<"P","O","S","T","G","R","E","S","_","U","S","E","R">>, <<"P","O","S","T","G","R","E","S","_","D","B">>>>
    [] type = "adminer" -> <<>>
    [] type = "mysql" -> <<MYSQL_ROOT_PASSWORD, <<"M","Y","S","Q","L","_","U","S","E","R">>, <<"M","Y","S","Q","L","_","P","A","S","S","W","O","R","D">>,
                           <<"M","Y","S","Q","L","_","D","A","T","A","B","A","S","E">>>>
    [] type = "mariadb" -> <<<<"M","A","R","I","A","D","B","_","R","O","O","T","_","P","A","S","S","W","O","R","D">>, <<"M","A","R","I","A","D","B","_","U","S","E","R">>,
                             <<"M","A","R","I","A","D","B","_","P","A","S","S","W","O","R","D">>, <<"M","A","R","I","A","D","B","_","D","A","T","A","B","A","S","E">>>>
    [] type = "mongo" -> <<<<"M","O","N","G","O","_","I","N","I","T","D","B","_","R","O","O","T","_","U","S","E","R","N","A","M","E">>,
                           <<"M","O","N","G","O","_","I","N","I","T","D","B","_","R","O","O","T","_","P","A","S","S","W","O","R","D">>>>
    [] type = "rabbitmq" -> <<<<"R","A","B","B","I","T","M","Q","_","D","E","F","A","U","L","T","_","P","A","S","S">>, <<"R","A","B","B","I","T","M","Q","_","D","E","F","A","U","L","T","_","U","S","E","R">>>>
    [] type = "phpmyadmin" -> <<>>
    [] type = "pgadmin" -> <<<<"P","G","A","D","M","I","N","_","D","E","F","A","U","L","T","_","P","A","S","S","W","O","R","D">>, <<"P","G","A","D","M","I","N","_","D","E","F","A","U","L","T","_","E","M","A","I","L">>>>
    [] type = "mongo_express" -> <<<<"M","E","_","C","O","N","F","I","G","_","B","A","S","I","C","A","U","T","H","_","U","S","E","R","N","A","M","E">>,
                                   <<"M","E","_","C","O","N","F","I","G","_","B","A","S","I","C","A","U","T","H","_","P","A","S","S","W","O","R","D">>,
                                   <<"M","E","_","C","O","N","F","I","G","_","M","O","N","G","O","D","B","_","A","U","T","H","_","U","S","E","R","N","A","M","E">>,
                                   <<"M","E","_","C","O","N","F","I","G","_","M","O","N","G","O","D","B","_","A","U","T","H","_","P","A","S","S","W","O","R","D">>>>

\* isCustomService(type) is not null
isCustomService(type) == type \in Range(SERVICES_CUSTOM)

\* isCommonService(type) is not null
isCommonService(type) == type \in Range(SERVICES_COMMON)

\* isCommonServicePublic(type) is not null
isCommonServicePublic(type) == type \in Range(SERVICES_COMMON_PUBLIC)

\* the property f of obj when it is a compared string, else undefined
Prop(obj, f) == IF Has(obj, f) THEN obj[f] ELSE undefined

\* getServiceBySize(sizes, size): the sizes of that name
getServiceBySize(sizes, size) == {k \in 1..Len(sizes) : sizes[k].name = size}

\* checkVersion({ services, version, type })
checkVersion(services, version, type) ==
  \E k \in 1..Len(services) :
    /\ services[k].type = type
    /\ \A j \in 1..(k-1) : services[j].type # type
    /\ version \in Range(services[k].tags)

\* one finding: CheckConfigResult.  msg is the fixed text of the message,
\* item the service, about and other the values the message or data quote
Finding(msg, item, about, exit) ==
  [msg |-> msg, item |-> item, about |-> about, other |-> <<>>, exit |-> exit]

\* the lists of a list, joined
RECURSIVE Concat(_)
Concat(lists) ==
  IF Len(lists) = 0 THEN <<>> ELSE Head(lists) \o Concat(Tail(lists))

\* the character class [\\//0-9A-Za-z\\-_/] of allowedRegexp: \\-_ is the
\* range from the backslash to the underscore
LocationChar == {"\\", "/", "]", "^", "_"} \cup Digit \cup Upper \cup Lower

\* checkLocation(location, item, name)
checkLocation(location, item, name) ==
  (IF Len(location) > 0 /\ \A k \in 1..Len(location) : location[k] \in LocationChar
   THEN <<>>
   ELSE <<[Finding("has unallowed symbols", item, location, TRUE)
             EXCEPT !.other = name]>>)
  \o
  (IF Len(location) > 0 /\ location[1] = "/"
   THEN <<>>
   ELSE <<[Finding("have wrong start", item, location, TRUE)
             EXCEPT !.other = name]>>)
  \o
  (IF IndexOf(location, <<"/","/">>) # 0
   THEN <<[Finding("have two or more slushes together", item, location, TRUE)
             EXCEPT !.other = name]>>
   ELSE <<>>)

Letter == Lower \cup Upper

EmptyPort ==
  [has |-> {}, port |-> <<>>, type |-> "", location |-> <<>>, timeout |-> <<>>,
   buffer_size |-> <<>>, proxy_path |-> <<>>, static |-> <<>>]

EmptyStatic == [has |-> {}, path |-> <<>>, location |-> <<>>, index |-> <<>>]

\* the check of timeout of one port; a number is carried by its toString()
checkTimeout(p, item) ==
  IF ~TruthyStr(p, "timeout") THEN <<>>
  ELSE IF Prop(p, "type") # "chunked" /\ Prop(p, "type") # "ws"
  THEN <<Finding("Timeout doesn't have any effect", item, p.port, FALSE)>>
  ELSE LET n == PrefixRun(p.timeout, Digit)
           postfix == Drop(p.timeout, n)
       IN IF ~(n >= 1 /\ Len(postfix) \in {1, 2}
                      /\ \A k \in 1..Len(postfix) : postfix[k] \in Letter)
          THEN <<Finding("Timeout must be a string", item, p.port, TRUE)>>
          ELSE IF postfix \notin PORT_TIMEOUTS
          THEN <<Finding("Timeout has wrong postfix", item, p.port, TRUE)>>
          ELSE <<>>

\* the check of buffer_size of one port
checkBufferSize(p, item) ==
  IF ~TruthyStr(p, "buffer_size") THEN <<>>
  ELSE IF Prop(p, "type") # "chunked"
  THEN <<Finding("Buffer size doesn't have any effect", item, p.port, FALSE)>>
  ELSE LET n == PrefixRun(p.buffer_size, Digit)
       IN IF ~(n >= 1 /\ Drop(p.buffer_size, n) = <<"k">>)
          THEN <<Finding("Buffer size must be a string", item, p.port, TRUE)>>
          ELSE IF DigitsValue(SubSeq(p.buffer_size, 1, n)) > BUFFER_SIZE_MAX
          THEN <<Finding("Buffer size is not allowed", item, p.port, TRUE)>>
          ELSE <<>>

\* the check of one entry of static of a port; the findings of checkLocation
\* on static.location are computed by the code and dropped
checkStatic(st, p, item) ==
  (IF ~TruthyStr(st, "location")
   THEN <<Finding("Field static.location is required", item, p.port, TRUE)>>
   ELSE <<>>)
  \o
  (IF ~TruthyStr(st, "path")
   THEN <<Finding("Field static.path is required", item, p.port, TRUE)>>
   ELSE <<>>)
  \o
  (IF TruthyStr(st, "index")
      /\ ~\E k \in 1..Len(st.index) :
            st.index[k] \in Letter \cup Digit \cup {"\\", ".", "-", "_"}
   THEN <<Finding("Field static.index contains not allowed symbols", item, p.port, TRUE)>>
   ELSE <<>>)
  \o
  (IF Has(st, "location")
      /\ st.location = (IF TruthyStr(p, "location") THEN p.location
                        ELSE DEFAULT_LOCATION)
   THEN <<Finding("Fields location and static.location can not be the same", item, p.port, TRUE)>>
   ELSE <<>>)

\* port.toString() throws: the port entry has no port
portThrows(p) == ~Has(p, "port")

\* the body of ports.forEach for one port that has a port
checkPort(p, item) ==
  checkTimeout(p, item)
  \o checkBufferSize(p, item)
  \o (IF ParseIntIsNaN(p.port) \/ IndexOf(p.port, <<".">>) # 0
      THEN <<Finding("Port must be an integer", item, p.port, TRUE)>>
      ELSE <<>>)
  \o (IF TruthyStr(p, "location")
      THEN checkLocation(p.location, item, <<"L","o","c","a","t","i","o","n">>) ELSE <<>>)
  \o (IF TruthyStr(p, "proxy_path")
      THEN checkLocation(p.proxy_path, item, <<"P","r","o","x","y"," ","p","a","t","h">>)
           \o (IF Prop(p, "type") = "php"
               THEN <<Finding("Property proxy_path doesn't have any effect for port type php", item, <<>>, FALSE)>>
               ELSE <<>>)
      ELSE <<>>)
  \o (IF Prop(p, "type") \notin Range(PORT_TYPES)
      THEN <<Finding("Port type is not allowed", item, p.port, TRUE)>>
      ELSE <<>>)
  \o (IF Has(p, "static")
      THEN Concat([k \in 1..Len(p.static) |-> checkStatic(p.static[k], p, item)])
      ELSE <<>>)

(***************************************************************************)
(* checkConfig: the volumes of one service.                                *)
(***************************************************************************)
\* fs.existsSync(path) on the disk, a set of files
existsSync(files, path) == \E f \in files : f.path = path

\* fs.statSync(path)
statSync(files, path) == CHOOSE f \in files : f.path = path

\* a volume entry at which the loop over volumes throws
volumeThrows(vols) ==
  \E k \in 1..Len(vols) :
    /\ ~IsString(vols[k])
    /\ \A j \in 1..(k-1) : Truthy(vols[j])

\* the findings on the local file of one entry
checkLocalFile(entry, localPath, item, server, handle, files) ==
  IF handle = null \/ server THEN <<>>
  ELSE IF ~existsSync(files, localPath)
  THEN <<Finding("Local path is not exists", item, entry, TRUE)>>
  ELSE (IF statSync(files, localPath).isDirectory
        THEN <<Finding("Directory can't be a volume, only files", item, entry, TRUE)>>
        ELSE <<>>)
       \o
       (IF statSync(files, localPath).size >= VOLUME_UPLOAD_MAX_SIZE
        THEN <<Finding("Volume file is too big", item, entry, TRUE)>>
        ELSE <<>>)

\* the loop over the volume entries from entry _i on; volNames holds the file
\* names seen so far
RECURSIVE checkVolumeEntries(_, _, _, _, _, _, _)
checkVolumeEntries(vols, _i, volNames, item, server, handle, files) ==
  IF _i > Len(vols) \/ ~Truthy(vols[_i]) THEN <<>>
  ELSE LET _item == vols[_i]
           localM == VOLUME_LOCAL_REGEX(_item)
           localPath == VOLUME_LOCAL_POSTFIX_REGEX(localM)
           filename == basename(localPath)
           remote == VOLUME_REMOTE_REGEX(_item)
           remotePath == VOLUME_REMOTE_PREFIX_REGEX(remote)
       IN IF localM = NoMatch
          THEN <<Finding("Local part of volume must satisfy regex", item, _item, TRUE)>>
               \o checkVolumeEntries(vols, _i + 1, volNames, item, server, handle, files)
          ELSE checkLocalFile(_item, localPath, item, server, handle, files)
               \o (IF filename \in volNames
                   THEN <<Finding("Two or more volumes with the same file name", item, filename, TRUE)>>
                   ELSE <<>>)
               \o (IF remote = NoMatch
                   THEN <<Finding("Remote part of volume must satisfy regex", item, _item, TRUE)>>
                   ELSE IF ~isAbsolute(remotePath)
                   THEN <<Finding("Remote part of volume is not absolute", item, _item, TRUE)>>
                   ELSE <<>>)
               \o checkVolumeEntries(vols, _i + 1, volNames \cup {filename},
                                     item, server, handle, files)

\* the block "Check volumes" of one service whose entries are strings
checkVolumes(service, item, server, handle, files) ==
  IF ~Has(service, "volumes") THEN <<>>
  ELSE (IF Len(service.volumes) > COUNT_OF_VOLUMES_MAX
        THEN <<Finding("Service has too much volumes", item, <<>>, TRUE)>>
        ELSE <<>>)
       \o checkVolumeEntries(service.volumes, 1, {}, item, server, handle, files)

\* the block "Check volumes" reaches the acquisition of the filesystem handle
acquiresFs(service) ==
  /\ Has(service, "volumes")
  /\ \E k \in 1..Len(service.volumes) :
       /\ \A j \in 1..k : Truthy(service.volumes[j]) /\ IsString(service.volumes[j])
       /\ VOLUME_LOCAL_REGEX(service.volumes[k]) # NoMatch

(***************************************************************************)
(* checkConfig: the checks of one service.  A block gives the findings it  *)
(* pushes and how it ends: "next" (falls through), "return" (return res)   *)
(* or "throw" (a TypeError leaves checkConfig).                            *)
(***************************************************************************)
Ends(outcome, findings) == [outcome |-> outcome, res |-> findings]

\* block a, then block b unless a returned or threw
Then(a, b) ==
  IF a.outcome # "next" THEN a ELSE Ends(b.outcome, a.res \o b.res)

\* "Check git" of a custom service
checkGit(service, item) ==
  IF ~Has(service, "git") THEN Ends("next", <<>>)
  ELSE IF ~TruthyStr(service.git, "url")
  THEN Ends("return", <<Finding("Missing required parameter git.url", item, <<>>, TRUE)>>)
  ELSE IF ~TruthyStr(service.git, "branch")
  THEN Ends("return", <<Finding("Missing required parameter git.branch", item, <<>>, TRUE)>>)
  ELSE IF checkGitType(service.git.url) = null
  THEN Ends("return", <<Finding("Wrong parameter git.url", item, <<>>, TRUE)>>)
  ELSE Ends("next",
         (IF parseGitUrl(service.git.url).isNull
          THEN <<Finding("Failed to parse parameter git.url", item, <<>>, TRUE)>>
          ELSE <<>>)
         \o
         (IF Has(service.git, "untracked") /\ service.git.untracked # ""
             /\ service.git.untracked \notin GIT_UNTRACKED_POLICY
          THEN <<Finding("Failed parameter git.untracked", item, <<>>, TRUE)>>
          ELSE <<>>))

\* "Check pwd" of a custom service
checkPwd(service, item) ==
  IF ~TruthyStr(service, "pwd")
  THEN Ends("return", <<Finding("Required parameter pwd is missing", item, <<>>, TRUE)>>)
  ELSE IF isAbsolute(service.pwd)
  THEN Ends("return", <<Finding("Parameter pwd must be relative", item, service.pwd, TRUE)>>)
  ELSE IF (~\E k \in 1..Len(service.pwd) : service.pwd[k] \in GitPathChar)
          /\ service.pwd # PWD_DEFAULT
  THEN Ends("next", <<Finding("Default parameter pwd must be ./", item, service.pwd, TRUE)>>)
  ELSE Ends("next", <<>>)

\* "Check ports" of a custom service: the allowance of the size, then forEach
checkPorts(service, item, sizes) ==
  LET ports == IF Has(service, "ports") THEN service.ports ELSE <<>>
      found == getServiceBySize(sizes, Prop(service, "size"))
      allowance == sizes[CHOOSE k \in found : \A j \in found : k <= j].ports
  IN IF \E k \in 1..Len(ports) : portThrows(ports[k])
     THEN Ends("throw", <<>>)
     ELSE Ends("next",
            (IF found # {} /\ Len(ports) > allowance
             THEN <<Finding("Maximum port length", item, <<>>, TRUE)>>
             ELSE <<>>)
            \o Concat([k \in 1..Len(ports) |-> checkPort(ports[k], item)]))

\* "Check domains" of a custom service
checkDomains(service, item) ==
  LET domains == IF Has(service, "domains") THEN service.domains ELSE <<>>
  IN IF \E k \in 1..Len(domains) : domains[k].isNull
     THEN Ends("throw", <<>>)
     ELSE Ends("next",
            Concat([k \in 1..Len(domains) |->
                      IF Len(domains[k].domain) > DOMAIN_MAX_LENGTH
                      THEN <<Finding("Maximum allowed domain length", item,
                                     domains[k].domain, TRUE)>>
                      ELSE <<>>]))

\* "Check environment format" of a custom service; the later block "Check
\* environment exclude" pushes nothing, a parsed variable has a name
checkEnvironmentFormat(service, item) ==
  LET environment == IF Has(service, "environment") THEN service.environment
                     ELSE <<>>
  IN Concat([k \in 1..Len(environment) |->
               IF parseEnvironmentVariable(environment[k]).isNull
               THEN <<Finding("Environment variable has wrong format", item,
                              environment[k], TRUE)>>
               ELSE <<>>])

\* (services[key] || {}).active
IsActive(services, key) ==
  /\ HasKey(services, key)
  /\ ~Lookup(services, key).isNull
  /\ Has(Lookup(services, key), "active")
  /\ Lookup(services, key).active

\* "Check depends on" of a custom service
checkDependsOn(service, item, services) ==
  LET depends_on == IF Has(service, "depends_on") THEN service.depends_on
                    ELSE <<>>
  IN IF ~(Has(service, "active") /\ service.active) THEN <<>>
     ELSE Concat([k \in 1..Len(depends_on) |->
                    IF ~IsActive(services, depends_on[k])
                    THEN <<Finding("Service depends on of missing service", item,
                                   depends_on[k], TRUE)>>
                    ELSE <<>>])

\* "Check custom services"
checkCustom(service, item, services, sizes) ==
  Then(checkPwd(service, item),
  Then(checkGit(service, item),
  Then(checkPorts(service, item, sizes),
  Then(checkDomains(service, item),
       Ends("next", checkEnvironmentFormat(service, item)
                    \o checkDependsOn(service, item, services))))))

\* the negation in front of checkDeps left out
checkDependents_inverted(service, item, services, _public) ==
  IF /\ \E k \in 1..Len(services) :
          /\ isCustomService(Prop(services[k].val, "type"))
          /\ Has(services[k].val, "depends_on")
          /\ item \in Range(services[k].val.depends_on)
     /\ ~_public
     /\ Prop(service, "type") \notin Range(SERVICES_COMMON_PUBLIC)
  THEN <<Finding("None custom service depends on it", item, <<>>, FALSE)>>
  ELSE <<>>

\* checkDeps: some custom service has a depends_on that names item
checkDeps(services, item) ==
  \E k \in 1..Len(services) :
    /\ isCustomService(Prop(services[k].val, "type"))
    /\ Has(services[k].val, "depends_on")
    /\ item \in Range(services[k].val.depends_on)

\* the advisory on a common service that nothing depends on
checkDependents(service, item, services, _public) ==
  IF /\ ~checkDeps(services, item)
     /\ ~_public
     /\ Prop(service, "type") \notin Range(SERVICES_COMMON_PUBLIC)
  THEN <<Finding("None custom service depends on it", item, <<>>, FALSE)>>
  ELSE <<>>

\* an entry with the name and no value counts as present
checkRequired_nameOnly(service, item) ==
  LET commonVaribles == ENVIRONMENT_REQUIRED_COMMON(service.type)
      environment == IF Has(service, "environment") THEN service.environment
                     ELSE <<>>
  IN Concat([k \in 1..Len(commonVaribles) |->
               IF \E e \in 1..Len(environment) :
                    getEnvironmentName(environment[e]) = commonVaribles[k]
               THEN <<>>
               ELSE <<Finding("Required environment variable is missing", item,
                              commonVaribles[k], TRUE)>>])

\* the required variables of a common service that its environment lacks
checkRequired(service, item) ==
  LET commonVaribles == ENVIRONMENT_REQUIRED_COMMON(service.type)
      environment == IF Has(service, "environment") THEN service.environment
                     ELSE <<>>
  IN Concat([k \in 1..Len(commonVaribles) |->
               IF \E e \in 1..Len(environment) :
                    /\ ~parseEnvironmentVariable(environment[e]).isNull
                    /\ parseEnvironmentVariable(environment[e]).name = commonVaribles[k]
               THEN <<>>
               ELSE <<Finding("Required environment variable is missing", item,
                              commonVaribles[k], TRUE)>>])

\* the values are not compared
checkMirror_noValue(name, value, item, dependent) ==
  IF /\ Has(dependent.val, "depends_on")
     /\ item \in Range(dependent.val.depends_on)
     /\ isCustomService(Prop(dependent.val, "type"))
     /\ Has(dependent.val, "environment")
     /\ name # MYSQL_ROOT_PASSWORD
     /\ \A e \in 1..Len(dependent.val.environment) :
          getEnvironmentName(dependent.val.environment[e]) # name
  THEN <<[msg |-> "Variable is not provided in a dependent service",
          item |-> item, about |-> name, other |-> dependent.key,
          exit |-> FALSE]>>
  ELSE <<>>

\* the findings of one variable of a common service against one service
checkMirror(name, value, item, dependent) ==
  LET _environment == dependent.val.environment
      matches == {e \in 1..Len(_environment) :
                    getEnvironmentName(_environment[e]) # NoMatch
                    /\ getEnvironmentName(_environment[e]) = name}
      check == matches # {}
      _envVal == getEnvironmentValue(
                   _environment[CHOOSE e \in matches : \A d \in matches : d <= e])
  IN IF ~(/\ Has(dependent.val, "depends_on")
          /\ item \in Range(dependent.val.depends_on)
          /\ isCustomService(Prop(dependent.val, "type"))
          /\ Has(dependent.val, "environment"))
     THEN <<>>
     ELSE (IF ~check /\ name # MYSQL_ROOT_PASSWORD
           THEN <<[msg |-> "Variable is not provided in a dependent service",
                   item |-> item, about |-> name, other |-> dependent.key,
                   exit |-> FALSE]>>
           ELSE <<>>)
          \o
          (IF check /\ value # _envVal
           THEN <<[msg |-> "Variable value is not the same in a dependent service",
                   item |-> item, about |-> name, other |-> dependent.key,
                   exit |-> FALSE]>>
           ELSE <<>>)

\* the second "Check depends on" of a common service: its variables against
\* the services that depend on it
checkMirrors(service, item, services) ==
  LET environment == IF Has(service, "environment") THEN service.environment
                     ELSE <<>>
  IN Concat([e \in 1..Len(environment) |->
       LET variable == parseEnvironmentVariable(environment[e])
       IN IF variable.isNull
             \/ variable.name \notin Range(ENVIRONMENT_REQUIRED_COMMON(service.type))
          THEN <<>>
          ELSE Concat([k \in 1..Len(services) |->
                 checkMirror(variable.name, variable.value, item, services[k])])])

\* "Check common services"
checkCommon(service, item, services, _public) ==
  LET head == (IF Has(service, "ports")
               THEN <<Finding("Field ports is not allowed", item, <<>>, TRUE)>>
               ELSE <<>>)
              \o
              (IF TruthyStr(service, "command")
               THEN <<Finding("Field command is not allowed", item, <<>>, TRUE)>>
               ELSE <<>>)
  IN IF ~(Has(service, "active") /\ service.active) THEN Ends("next", head)
     ELSE IF \E k \in 1..Len(services) : services[k].val.isNull
     THEN Ends("throw", <<>>)
     ELSE Ends("next", head \o checkDependents(service, item, services, _public)
                            \o checkRequired(service, item)
                            \o checkMirrors(service, item, services))

(***************************************************************************)
(* res.sort(comparator): Array.prototype.sort of V8 on an array shorter    *)
(* than 64, the first run made ascending, then a binary insertion sort.    *)
(***************************************************************************)
\* the comparator of the final sort
comparator(a, b) == IF ~a.exit /\ b.exit THEN 0 - 1 ELSE 1

\* CountAndMakeRun: the length of the run that starts the array
RECURSIVE RunLength(_, _, _)
RunLength(arr, idx, isDescending) ==
  IF idx > Len(arr) THEN idx - 1
  ELSE LET order == comparator(arr[idx], arr[idx - 1])
       IN IF (isDescending /\ order >= 0) \/ (~isDescending /\ order < 0)
          THEN idx - 1
          ELSE RunLength(arr, idx + 1, isDescending)

Reverse(s) == [k \in 1..Len(s) |-> s[Len(s) + 1 - k]]

\* the place of pivot in the sorted arr[1..right-1], searched from left
RECURSIVE BinarySearch(_, _, _, _)
BinarySearch(arr, pivot, left, right) ==
  IF left >= right THEN left
  ELSE LET mid == left + ((right - left) \div 2)
       IN IF comparator(pivot, arr[mid]) < 0
          THEN BinarySearch(arr, pivot, left, mid)
          ELSE BinarySearch(arr, pivot, mid + 1, right)

\* BinaryInsertionSort: arr[1..start-1] is sorted, the rest is inserted
RECURSIVE BinaryInsertionSort(_, _)
BinaryInsertionSort(arr, start) ==
  IF start > Len(arr) THEN arr
  ELSE LET left == BinarySearch(arr, arr[start], 1, start)
       IN BinaryInsertionSort(
            SubSeq(arr, 1, left - 1) \o <<arr[start]>>
              \o SubSeq(arr, left, start - 1) \o SubSeq(arr, start + 1, Len(arr)),
            start + 1)

sort(arr) ==
  IF Len(arr) < 2 THEN arr
  ELSE LET isDescending == comparator(arr[2], arr[1]) < 0
           runLength == RunLength(arr, 3, isDescending)
           run == IF isDescending
                  THEN Reverse(SubSeq(arr, 1, runLength))
                       \o SubSeq(arr, runLength + 1, Len(arr))
                  ELSE arr
       IN BinaryInsertionSort(run, runLength + 1)

(***************************************************************************)
(* checkConfig({ services, server }, { deployData, isServer })             *)
(***************************************************************************)
\* the filesystem handle after the lazy import
fsHandle == IF fs # null THEN fs ELSE IF fsAvailable THEN "fs" ELSE null

\* the body of the loop for the service called item
checkService(services, item) ==
  LET service == Lookup(services, item)
      type == Prop(service, "type")
      _public == Has(service, "ports") /\ Len(service.ports) > 0
      head ==
        checkVolumes(service, item, isServer, fsHandle, disk)
        \o (IF "%" \in Range(item)
            THEN <<Finding("Service name contains the not allowed symbol", item, <<>>, TRUE)>>
            ELSE <<>>)
        \o (IF type \notin Range(SERVICE_TYPES)
            THEN <<Finding("Service type is not allowed", item, <<>>, TRUE)>>
            ELSE <<>>)
        \o (IF _public /\ isCommonService(type) /\ ~isCommonServicePublic(type)
            THEN <<Finding("Service can not have public ports", item, <<>>, TRUE)>>
            ELSE <<>>)
      sized ==
        (IF \E k \in 1..Len(deployData.sizes) :
              deployData.sizes[k].name = Prop(service, "size")
         THEN <<>>
         ELSE <<Finding("Size doesn't allowed", item, <<>>, TRUE)>>)
        \o (IF ~checkVersion(deployData.services, service.version, type)
               /\ service.version # "latest"
            THEN <<Finding("Version is no longer supported", item, <<>>, FALSE)>>
            ELSE <<>>)
  IN IF service.isNull THEN Ends("throw", <<>>)
     ELSE IF Has(service, "volumes") /\ volumeThrows(service.volumes)
     THEN Ends("throw", <<>>)
     ELSE IF ~(Has(service, "version") /\ service.version # "")
     THEN Ends("return",
               head \o <<Finding("Version doesn't exists", item, <<>>, TRUE)>>)
     ELSE Then(Ends("next", head \o sized),
          Then(IF isCustomService(type)
               THEN checkCustom(service, item, services, deployData.sizes)
               ELSE Ends("next", <<>>),
               IF isCommonService(type)
               THEN checkCommon(service, item, services, _public)
               ELSE Ends("next", <<>>)))

\* the return after the push left out: the loop is entered
checkConfig_fail_noReturn(finding) ==
  /\ res' = <<finding>>
  /\ pcCheck' = "loop"
  /\ iCheck' = 1
  /\ _iCheck' = 1

\* return res with the one finding of a structural failure
checkConfig_fail(finding) ==
  /\ res' = <<finding>>
  /\ pcCheck' = "returned"
  /\ UNCHANGED <<iCheck, _iCheck>>

\* the checks in front of the loop
checkConfig_enter ==
  /\ pcCheck = "call"
  /\ IF ~deployData.defined
     THEN checkConfig_fail(Finding("Something went wrong", <<>>, <<>>, TRUE))
     ELSE IF Has(heap.config, "server") /\ ~TruthyStr(heap.config.server, "node_name")
     THEN checkConfig_fail(Finding("Property is required for parameter server", <<>>, <<>>, TRUE))
     ELSE IF ~Has(heap.config, "services")
     THEN checkConfig_fail(Finding("Required field is missing", <<>>, <<>>, TRUE))
     ELSE IF Len(Keys(heap.config.services)) = 0
     THEN checkConfig_fail(Finding("Services list can not be empty", <<>>, <<>>, TRUE))
     ELSE pcCheck' = "loop" /\ iCheck' = 1 /\ _iCheck' = 1 /\ UNCHANGED res
  /\ UNCHANGED <<heap, fsAvailable, fs, imports, deployData, isServer, disk>>
  /\ UNCHANGED volVars
  /\ UNCHANGED pureVars

\* one turn of the loop over serviceKeys
checkConfig_service ==
  /\ pcCheck = "loop"
  /\ iCheck <= Len(Keys(heap.config.services))
  /\ Truthy(Keys(heap.config.services)[iCheck])
  /\ LET item == Keys(heap.config.services)[iCheck]
         service == Lookup(heap.config.services, item)
         checked == checkService(heap.config.services, item)
     IN /\ fs' = IF ~service.isNull /\ acquiresFs(service) THEN fsHandle ELSE fs
        /\ imports' = IF ~service.isNull /\ acquiresFs(service) /\ fs = null
                         /\ fsAvailable
                      THEN imports + 1 ELSE imports
        /\ _iCheck' = 1
        /\ IF checked.outcome = "throw"
           THEN pcCheck' = "threw" /\ UNCHANGED <<res, iCheck>>
           ELSE IF checked.outcome = "return"
           THEN /\ res' = res \o checked.res
                /\ pcCheck' = "returned"
                /\ UNCHANGED iCheck
           ELSE /\ res' = res \o checked.res
                /\ iCheck' = iCheck + 1
                /\ UNCHANGED pcCheck
  /\ UNCHANGED <<heap, fsAvailable, deployData, isServer, disk>>
  /\ UNCHANGED volVars
  /\ UNCHANGED pureVars

\* the loop is over: return res.sort(...)
checkConfig_sort ==
  /\ pcCheck = "loop"
  /\ IF iCheck > Len(Keys(heap.config.services)) THEN TRUE
     ELSE ~Truthy(Keys(heap.config.services)[iCheck])
  /\ res' = sort(res)
  /\ pcCheck' = "returned"
  /\ UNCHANGED <<heap, fsAvailable, fs, imports, deployData, isServer, disk, iCheck, _iCheck>>
  /\ UNCHANGED volVars
  /\ UNCHANGED pureVars

(***************************************************************************)
(* Inputs of checkConfig.                                                  *)
(***************************************************************************)
K_app == <<"a","p","p">>

K_db == <<"d","b">>

K_pct == <<"a","%">>

\* the catalog the server sends
Catalog ==
  [defined |-> TRUE,
   sizes |-> <<[name |-> "mili", ports |-> 1], [name |-> "santi", ports |-> 2]>>,
   services |-> <<[type |-> "node", tags |-> <<"20", "22">>],
                  [type |-> "redis", tags |-> <<"7">>],
                  [type |-> "adminer", tags |-> <<"4">>]>>]

\* a service of the given type that is complete as far as its kind goes
Service(type, active) ==
  Set(Set(Set(Set(EmptyService, "type", type), "size", "mili"),
          "version", "latest"), "active", active)

S_node == Set(Service("node", TRUE), "pwd", PWD_DEFAULT)

\* depends on db and mirrors its password
S_nodeDeps ==
  Set(Set(S_node, "depends_on", <<K_db>>), "environment", <<<<"R","E","D","I","S","_","P","A","S","S","W","O","R","D","=","x">>>>)

\* depends on the first service
S_nodeDepsApp == Set(S_node, "depends_on", <<K_app>>)

\* depends on db with another password
S_nodeMismatch ==
  Set(Set(S_node, "depends_on", <<K_db>>), "environment", <<<<"R","E","D","I","S","_","P","A","S","S","W","O","R","D","=","y">>>>)

\* a size and a version the catalog does not have
S_nodeOld == Set(Set(S_node, "size", "huge"), "version", "18")

S_nodeNoPwd == Unset(S_nodeOld, "pwd")

S_nodeNoVersion == Unset(S_node, "version")

\* a port with a timeout that has no effect and a location without slash
S_nodePorts ==
  Set(S_node, "ports",
      <<Set(Set(Set(Set(EmptyPort, "port", <<"8","0">>), "type", "http"),
                "timeout", <<"3","0","s">>), "location", <<"b","a","d">>)>>)

S_nodeVolumes == Set(S_node, "volumes", <<V_local, V_https>>)

S_redis == Set(Service("redis", TRUE), "environment", <<<<"R","E","D","I","S","_","P","A","S","S","W","O","R","D","=","x">>>>)

\* no environment and a version the catalog does not have
S_redisBare == Set(Service("redis", TRUE), "version", "0")

S_redisPorts ==
  Set(S_redis, "ports", <<Set(Set(EmptyPort, "port", <<"6","3","7","9">>), "type", "http")>>)

S_redisOff == Set(S_redis, "active", FALSE)

S_adminer == Service("adminer", TRUE)

S_unknown == Set(Set(Service("foo", TRUE), "size", "huge"), "version", "1")

\* a port entry without port
S_nodeBadPort == Set(S_node, "ports", <<Set(EmptyPort, "type", "http")>>)

\* a volume entry that is a number
S_nodeBadVolume == Set(S_node, "volumes", <<NonString>>)

\* a domain that is null
S_nodeBadDomain ==
  Set(S_node, "domains", <<[name |-> <<"8","0">>, isNull |-> TRUE, domain |-> <<>>]>>)

ServiceInputs ==
  {S_node, S_nodeDeps, S_nodeDepsApp, S_nodeMismatch, S_nodeOld, S_nodeNoPwd,
   S_nodeNoVersion, S_nodePorts, S_nodeVolumes, S_redis, S_redisBare,
   S_redisPorts, S_redisOff, S_adminer, S_unknown, NullService,
   S_nodeBadPort, S_nodeBadVolume, S_nodeBadDomain}

\* the names of the services, by position
KeyLists == {<<K_app, K_db, <<"x">>, <<"y">>>>, <<K_pct, K_db, <<"x">>, <<"y">>>>}

\* the configs of one to max services
CheckConfigs(max) ==
  {Config(<<"p">>, [k \in 1..n |-> [key |-> keys[k], val |-> choice[k]]]) :
     <<n, keys, choice>> \in
       UNION {{<<m, ks, c>> : ks \in KeyLists, c \in [1..m -> ServiceInputs]}
                : m \in 1..max}}

\* configs with a structural failure
CheckBadConfigs ==
  LET c == Config(<<"p">>, <<[key |-> K_app, val |-> S_nodeOld]>>)
  IN {Unset(c, "services"),
      Set(c, "services", <<>>),
      Set(c, "server", NoServer),
      Set(Unset(c, "services"), "server", NoServer),
      Set(c, "server", Set(NoServer, "node_name", <<"n">>))}

\* the files of the local disk
Disks ==
  { {},
    {[path |-> <<"f">>, isDirectory |-> FALSE, size |-> 5]},
    {[path |-> <<"f">>, isDirectory |-> TRUE, size |-> 4096],
     [path |-> <<"h","t","t","p","s">>, isDirectory |-> FALSE, size |-> 100000]} }

InitCheck ==
  /\ \/ /\ \E c \in CheckConfigs(MaxServices) \cup CheckBadConfigs :
             heap = [config |-> c, clone |-> Unallocated]
        /\ deployData = Catalog
     \/ /\ \E c \in CheckBadConfigs \cup {Config(<<"p">>, <<[key |-> K_app, val |-> S_nodeOld]>>)} :
             heap = [config |-> c, clone |-> Unallocated]
        /\ deployData = NoDeployData
  /\ \/ isServer = FALSE /\ fsAvailable = TRUE /\ disk \in Disks
     \/ isServer = TRUE /\ fsAvailable = TRUE /\ disk = {}
     \/ isServer = FALSE /\ fsAvailable = FALSE /\ disk = {}
  /\ fs = null
  /\ pcCheck = "call"
  /\ iCheck = 0
  /\ _iCheck = 0
  /\ imports = 0
  /\ res = <<>>
  /\ userId = <<>>
  /\ volumes = NoVolumes
  /\ pcVol = "idle"
  /\ _config = ""
  /\ _volumes = <<>>
  /\ error = null
  /\ iVol = 0
  /\ _iVol = 0
  /\ __volumes = <<>>
  /\ pending = NoPending
  /\ fetched = <<>>
  /\ written = <<>>
  /\ result = NoResult
  /\ call = 1
  /\ pcPure = "idle"
  /\ args = <<>>
  /\ ret = <<>>

NextCheck ==
  \/ checkConfig_enter
  \/ checkConfig_service
  \/ checkConfig_sort

SpecCheck == InitCheck /\ [][NextCheck]_vars

(***************************************************************************)
(* Properties of checkConfig.                                              *)
(***************************************************************************)
Services == heap.config.services

\* checkConfig returned after the loop over all services
LoopCompleted == pcCheck = "returned" /\ iCheck > Len(Services)

\* checkConfig returned from inside the loop
ReturnedEarly == pcCheck = "returned" /\ iCheck >= 1 /\ iCheck <= Len(Services)

\* the service lacks a structurally required field
LacksRequired(service) ==
  /\ ~service.isNull
  /\ \/ ~(Has(service, "version") /\ service.version # "")
     \/ Prop(service, "type") \in Range(SERVICES_CUSTOM) /\ ~TruthyStr(service, "pwd")

\* res has a finding with that message for the service
Found(msg, key) ==
  \E f \in 1..Len(res) : res[f].msg = msg /\ res[f].item = key

\* C1: after a service that lacks a required field the later services are
\* still validated: an unknown type or a size that is not in the catalog of
\* a later service is in the returned list
C1_LaterServiceValidated ==
  (pcCheck = "returned" /\ iCheck >= 1) =>
    \A k \in 1..Len(Services) :
      LET later == Services[k].val
      IN ((\E j \in 1..(k-1) : LacksRequired(Services[j].val)) /\ ~later.isNull)
         => /\ Prop(later, "type") \notin Range(SERVICE_TYPES)
                 => Found("Service type is not allowed", Services[k].key)
            /\ (Has(later, "version") /\ later.version # ""
                /\ Prop(later, "size") \notin {"mili", "santi"})
                 => Found("Size doesn't allowed", Services[k].key)

\* C2: in every returned list the advisory findings come before the fatal ones
C2_AdvisoryBeforeFatal ==
  pcCheck = "returned" =>
    \A a, b \in 1..Len(res) : (a < b) => ~(res[a].exit /\ ~res[b].exit)

\* some custom service declares a depends_on that names key
NamedByCustom(key) ==
  \E k \in 1..Len(Services) :
    /\ Prop(Services[k].val, "type") \in {"node", "rust", "python", "golang", "php"}
    /\ Has(Services[k].val, "depends_on")
    /\ \E d \in 1..Len(Services[k].val.depends_on) :
         Services[k].val.depends_on[d] = key

\* an active common service of a type that is not public-capable
ActivePrivateCommon(service) ==
  /\ Prop(service, "type") \in
       {"redis", "postgres", "mysql", "mariadb", "mongo", "rabbitmq"}
  /\ Has(service, "active") /\ service.active

\* res has the advisory that no custom service depends on the service
NoneDependsAdvisory(key) ==
  \E f \in 1..Len(res) :
    /\ res[f].msg = "None custom service depends on it"
    /\ res[f].item = key
    /\ ~res[f].exit

C9_StructuralFailure ==
  (/\ pcCheck = "returned"
   /\ \/ ~deployData.defined
      \/ ~Has(heap.config, "services")
      \/ Len(Services) = 0)
    => /\ Len(res) = 1
       /\ res[1].exit
       /\ iCheck = 0

\* C9 witness: checkConfig returned for a config whose services map is empty
C9_Witness ==
  /\ pcCheck = "returned"
  /\ deployData.defined
  /\ Has(heap.config, "services")
  /\ Len(Services) = 0
  /\ Len(res) = 1

\* C10: checkConfig never throws: it completes for every config
C10_NeverThrows == pcCheck # "threw"

(***************************************************************************)
(* checkConfig on services with environments, dependencies and ports.      *)
(***************************************************************************)
\* depends on db and has no environment
S_nodeDepsNoEnv == Set(S_node, "depends_on", <<K_db>>)

\* depends on db with an environment that is the empty list
S_nodeDepsEmptyEnv == Set(S_nodeDepsNoEnv, "environment", <<>>)

\* depends on db and declares another variable only
S_nodeDepsOther == Set(S_nodeDepsNoEnv, "environment", <<<<"P","O","R","T","=","1">>>>)

\* depends on db, mirrors its password, is not active
S_nodeDepsOff == Set(S_nodeDeps, "active", FALSE)

\* depends on db, another password, is not active
S_nodeMismatchOff == Set(S_nodeMismatch, "active", FALSE)

\* depends on db and declares the password without a value
S_nodeDepsBlank == Set(S_nodeDepsNoEnv, "environment", <<<<"R","E","D","I","S","_","P","A","S","S","W","O","R","D","=">>>>)

\* depends on db and declares the user of a mysql service
S_nodeDepsMysql == Set(S_nodeDepsNoEnv, "environment", <<<<"M","Y","S","Q","L","_","U","S","E","R","=","u">>>>)

\* the password is declared without a value
S_redisEmpty == Set(Service("redis", TRUE), "environment", <<<<"R","E","D","I","S","_","P","A","S","S","W","O","R","D","=">>>>)

\* not active and without environment
S_redisOffBare == Service("redis", FALSE)

\* two of the four required variables
S_mysql ==
  Set(Service("mysql", TRUE), "environment", <<<<"M","Y","S","Q","L","_","R","O","O","T","_","P","A","S","S","W","O","R","D","=","x">>, <<"M","Y","S","Q","L","_","U","S","E","R","=","u">>>>)

S_adminerPorts ==
  Set(S_adminer, "ports", <<Set(Set(EmptyPort, "port", <<"8","0","8","0">>), "type", "http")>>)

\* a public-capable service with an empty list of ports
S_adminerNoPorts == Set(S_adminer, "ports", <<>>)

EnvServiceInputs ==
  {S_node, S_nodeDeps, S_nodeMismatch, S_nodeDepsNoEnv, S_nodeDepsEmptyEnv,
   S_nodeDepsOther, S_nodeDepsOff, S_nodeMismatchOff, S_nodeDepsBlank,
   S_nodeDepsMysql, S_nodeNoVersion,
   S_redis, S_redisBare, S_redisOff, S_redisEmpty, S_redisOffBare, S_redisPorts,
   S_mysql, S_adminer, S_adminerPorts, S_adminerNoPorts}

\* the configs of one to max of these services
EnvConfigs(max) ==
  {Config(<<"p">>, [k \in 1..n |-> [key |-> keys[k], val |-> choice[k]]]) :
     <<n, keys, choice>> \in
       UNION {{<<m, ks, c>> : ks \in KeyLists, c \in [1..m -> EnvServiceInputs]}
                : m \in 1..max}}

InitEnv ==
  /\ \E c \in EnvConfigs(MaxServices) : heap = [config |-> c, clone |-> Unallocated]
  /\ deployData = Catalog
  /\ isServer \in BOOLEAN
  /\ fsAvailable = TRUE
  /\ disk = {}
  /\ fs = null
  /\ pcCheck = "call"
  /\ iCheck = 0
  /\ _iCheck = 0
  /\ imports = 0
  /\ res = <<>>
  /\ userId = <<>>
  /\ volumes = NoVolumes
  /\ pcVol = "idle"
  /\ _config = ""
  /\ _volumes = <<>>
  /\ error = null
  /\ iVol = 0
  /\ _iVol = 0
  /\ __volumes = <<>>
  /\ pending = NoPending
  /\ fetched = <<>>
  /\ written = <<>>
  /\ result = NoResult
  /\ call = 1
  /\ pcPure = "idle"
  /\ args = <<>>
  /\ ret = <<>>

SpecEnv == InitEnv /\ [][NextCheck]_vars

(***************************************************************************)
(* Properties of the environment checks.                                   *)
(***************************************************************************)
\* the service is of a common type
IsCommon(service) ==
  Prop(service, "type") \in
    {"redis", "postgres", "mysql", "mariadb", "mongo", "rabbitmq",
     "adminer", "phpmyadmin", "pgadmin", "mongo_express"}

IsCustom(service) ==
  Prop(service, "type") \in {"node", "rust", "python", "golang", "php"}

Active(service) == Has(service, "active") /\ service.active

\* the environment of the service, empty when it has none
EnvironmentOf(service) ==
  IF Has(service, "environment") THEN service.environment ELSE <<>>

\* the entry is name=..., the value may be empty
EntryNamed(entry, name) ==
  /\ Len(entry) > Len(name)
  /\ SubSeq(entry, 1, Len(name)) = name
  /\ entry[Len(name) + 1] = "="

\* the text after name= in the entry
EntryValue(entry, name) == SubSeq(entry, Len(name) + 2, Len(entry))

\* the service has an entry with that name
DeclaresName(service, name) ==
  \E e \in 1..Len(EnvironmentOf(service)) : EntryNamed(EnvironmentOf(service)[e], name)

\* the service has an entry with that name and a value that is not empty
SetsVariable(service, name) ==
  \E e \in 1..Len(EnvironmentOf(service)) :
    /\ EntryNamed(EnvironmentOf(service)[e], name)
    /\ EntryValue(EnvironmentOf(service)[e], name) # <<>>

\* res has the fatal finding that the variable of the service is missing
RequiredMissing(key, name) ==
  \E f \in 1..Len(res) :
    /\ res[f].msg = "Required environment variable is missing"
    /\ res[f].item = key
    /\ res[f].about = name
    /\ res[f].exit

\* C11 as claimed: a required variable of a common service is reported as
\* missing exactly when the service is active and no entry of its environment
\* has the name of the variable
C11_RequiredIffNoName ==
  LoopCompleted =>
    \A k \in 1..Len(Services) :
      IsCommon(Services[k].val) =>
        \A name \in Range(ENVIRONMENT_REQUIRED_COMMON(Services[k].val.type)) :
          RequiredMissing(Services[k].key, name)
            <=> (Active(Services[k].val) /\ ~DeclaresName(Services[k].val, name))

\* C11 amended: a required variable of a common service is reported as
\* missing exactly when the service is active and no entry of its environment
\* gives the variable a value that is not empty; a service that is not
\* active never has the finding
C11_RequiredIffNoValue ==
  LoopCompleted =>
    \A k \in 1..Len(Services) :
      IsCommon(Services[k].val) =>
        \A name \in Range(ENVIRONMENT_REQUIRED_COMMON(Services[k].val.type)) :
          RequiredMissing(Services[k].key, name)
            <=> (Active(Services[k].val) /\ ~SetsVariable(Services[k].val, name))

\* C11 witness: a mysql service that sets two of its four variables has the
\* finding for a variable it lacks and none for one it sets
C11_Witness ==
  /\ LoopCompleted
  /\ \E k \in 1..Len(Services) :
       /\ Services[k].val = S_mysql
       /\ RequiredMissing(Services[k].key, <<"M","Y","S","Q","L","_","P","A","S","S","W","O","R","D">>)
       /\ ~RequiredMissing(Services[k].key, <<"M","Y","S","Q","L","_","U","S","E","R">>)

\* some depends_on entry of the service is key
DependsOn(service, key) ==
  /\ Has(service, "depends_on")
  /\ \E d \in 1..Len(service.depends_on) : service.depends_on[d] = key

\* res has the advisory that dependent does not provide the variable of key
NotProvided(key, dependent, name) ==
  \E f \in 1..Len(res) :
    /\ res[f].msg = "Variable is not provided in a dependent service"
    /\ res[f].item = key
    /\ res[f].other = dependent
    /\ res[f].about = name
    /\ ~res[f].exit

\* C12: when an active common service sets a required variable other than
\* MYSQL_ROOT_PASSWORD, every active custom service that depends on it and
\* does not declare the variable, with or without an environment list, gets
\* the advisory that it does not provide the variable
C12_MissingMirrorAdvised ==
  LoopCompleted =>
    \A s, c \in 1..Len(Services) :
      (/\ IsCommon(Services[s].val) /\ Active(Services[s].val)
       /\ IsCustom(Services[c].val) /\ Active(Services[c].val)
       /\ DependsOn(Services[c].val, Services[s].key))
      => \A name \in Range(ENVIRONMENT_REQUIRED_COMMON(Services[s].val.type)) :
           (/\ name # <<"M","Y","S","Q","L","_","R","O","O","T","_","P","A","S","S","W","O","R","D">>
            /\ SetsVariable(Services[s].val, name)
            /\ ~DeclaresName(Services[c].val, name))
           => NotProvided(Services[s].key, Services[c].key, name)

\* the value of the last entry of the service with that name
DeclaredValue(service, name) ==
  LET env == EnvironmentOf(service)
      last == CHOOSE e \in 1..Len(env) :
                /\ EntryNamed(env[e], name)
                /\ \A d \in (e + 1)..Len(env) : ~EntryNamed(env[d], name)
  IN EntryValue(env[last], name)

\* res has the advisory that dependent has another value for the variable
ValueMismatch(key, dependent, name) ==
  \E f \in 1..Len(res) :
    /\ res[f].msg = "Variable value is not the same in a dependent service"
    /\ res[f].item = key
    /\ res[f].other = dependent
    /\ res[f].about = name

\* the findings of the comparison with the dependent services
IsMirrorFinding(finding) ==
  finding.msg \in {"Variable is not provided in a dependent service",
                   "Variable value is not the same in a dependent service"}

\* C13: when an active common service sets a required variable to x and a
\* custom service that depends on it declares the variable with y, the
\* advisory on the value is returned exactly when x differs from y, and no
\* finding of the comparison is fatal
C13_ValueMismatchIffDiffers ==
  LoopCompleted =>
    /\ \A f \in 1..Len(res) : IsMirrorFinding(res[f]) => ~res[f].exit
    /\ \A s, c \in 1..Len(Services) :
         (/\ IsCommon(Services[s].val) /\ Active(Services[s].val)
          /\ IsCustom(Services[c].val)
          /\ DependsOn(Services[c].val, Services[s].key))
         => \A name \in Range(ENVIRONMENT_REQUIRED_COMMON(Services[s].val.type)) :
              (SetsVariable(Services[s].val, name) /\ DeclaresName(Services[c].val, name))
              => (ValueMismatch(Services[s].key, Services[c].key, name)
                    <=> DeclaredValue(Services[s].val, name)
                          # DeclaredValue(Services[c].val, name))

\* C13 witness: a custom service that has another password than the redis
\* service it depends on got the advisory
C13_Witness ==
  /\ LoopCompleted
  /\ Len(Services) = 2
  /\ Services[1].val = S_nodeMismatch
  /\ Services[2].val = S_redis
  /\ ValueMismatch(Services[2].key, Services[1].key, <<"R","E","D","I","S","_","P","A","S","S","W","O","R","D">>)

\* res has a fatal finding about the ports of the service
FatalPortsFinding(key) ==
  \E f \in 1..Len(res) :
    /\ res[f].msg \in {"Field ports is not allowed", "Service can not have public ports"}
    /\ res[f].item = key
    /\ res[f].exit

\* C14: a common service that declares ports has a fatal finding about them
\* exactly when its type is not adminer, phpmyadmin, pgadmin or mongo_express
C14_PublicCommonMayHavePorts ==
  LoopCompleted =>
    \A k \in 1..Len(Services) :
      (IsCommon(Services[k].val) /\ Has(Services[k].val, "ports"))
      => (FatalPortsFinding(Services[k].key)
            <=> Services[k].val.type \notin
                  {"adminer", "phpmyadmin", "pgadmin", "mongo_express"})

(***************************************************************************)
(* checkConfig on custom services with one port each.                      *)
(***************************************************************************)
PORT_MAX == 65535

\* the port values, by their toString()
PortInputs == {<<"0">>, <<"1">>, <<"8","0">>, <<"6","5","5","3","5">>, <<"6","5","5","3","6">>, <<"-","1">>, <<"8",".","5">>, <<"a","b","c">>}

\* a custom service with the one port
S_nodePort(port) ==
  Set(S_node, "ports", <<Set(Set(EmptyPort, "port", port), "type", "http")>>)

PortConfigs(max) ==
  {Config(<<"p">>, [k \in 1..n |-> [key |-> keys[k], val |-> S_nodePort(choice[k])]]) :
     <<n, keys, choice>> \in
       UNION {{<<m, ks, c>> : ks \in KeyLists, c \in [1..m -> PortInputs]}
                : m \in 1..max}}

InitPort ==
  /\ \E c \in PortConfigs(MaxServices) : heap = [config |-> c, clone |-> Unallocated]
  /\ deployData = Catalog
  /\ isServer \in BOOLEAN
  /\ fsAvailable = TRUE
  /\ disk = {}
  /\ fs = null
  /\ pcCheck = "call"
  /\ iCheck = 0
  /\ _iCheck = 0
  /\ imports = 0
  /\ res = <<>>
  /\ userId = <<>>
  /\ volumes = NoVolumes
  /\ pcVol = "idle"
  /\ _config = ""
  /\ _volumes = <<>>
  /\ error = null
  /\ iVol = 0
  /\ _iVol = 0
  /\ __volumes = <<>>
  /\ pending = NoPending
  /\ fetched = <<>>
  /\ written = <<>>
  /\ result = NoResult
  /\ call = 1
  /\ pcPure = "idle"
  /\ args = <<>>
  /\ ret = <<>>

SpecPort == InitPort /\ [][NextCheck]_vars

\* the text is a decimal integer in 1..PORT_MAX
PortInRange(text) ==
  /\ Len(text) > 0
  /\ \A k \in 1..Len(text) : text[k] \in Digit
  /\ DigitsValue(text) >= 1
  /\ DigitsValue(text) <= PORT_MAX

\* res has a fatal finding on that port of the service
PortFinding(key, port) ==
  \E f \in 1..Len(res) :
    /\ res[f].msg = "Port must be an integer"
    /\ res[f].item = key
    /\ res[f].about = port
    /\ res[f].exit

\* C15: a port of a custom service has a fatal finding exactly when its
\* value is not an integer in 1..65535
C15_PortInRange ==
  LoopCompleted =>
    \A k \in 1..Len(Services) :
      (IsCustom(Services[k].val) /\ Has(Services[k].val, "ports"))
      => \A p \in 1..Len(Services[k].val.ports) :
           PortFinding(Services[k].key, Services[k].val.ports[p].port)
             <=> ~PortInRange(Services[k].val.ports[p].port)

(***************************************************************************)
(* Properties of the checks of local volumes.                              *)
(***************************************************************************)
\* the local path of a volume entry: the text in front of its first colon
LocalPathOf(entry) == SubSeq(entry, 1, IndexOf(entry, <<":">>) - 1)

\* the file at the path on the local disk
FileAt(path) == CHOOSE f \in disk : f.path = path

\* res has the fatal finding with that message on the entry of the service
VolumeFinding(msg, key, entry) ==
  \E f \in 1..Len(res) :
    /\ res[f].msg = msg
    /\ res[f].item = key
    /\ res[f].about = entry
    /\ res[f].exit

IsLocalFinding(finding) ==
  finding.msg \in {"Local path is not exists",
                   "Directory can't be a volume, only files",
                   "Volume file is too big"}

\* C16: on the server no finding on a local file is returned; on the client
\* with a filesystem a local path that does not exist, is a directory or is
\* larger than 100000 bytes has its fatal finding, and a file of at most
\* 100000 bytes has no finding on its size
C16_LocalVolumeFindings ==
  LoopCompleted =>
    /\ isServer => \A f \in 1..Len(res) : ~IsLocalFinding(res[f])
    /\ (~isServer /\ fsAvailable) =>
         \A k \in 1..Len(Services) :
           Has(Services[k].val, "volumes") =>
             \A v \in 1..Len(Services[k].val.volumes) :
               LET entry == Services[k].val.volumes[v]
                   path == LocalPathOf(entry)
                   key == Services[k].key
               IN IF \A f \in disk : f.path # path
                  THEN VolumeFinding("Local path is not exists", key, entry)
                  ELSE /\ FileAt(path).isDirectory
                            => VolumeFinding("Directory can't be a volume, only files", key, entry)
                       /\ VolumeFinding("Volume file is too big", key, entry)
                            <=> FileAt(path).size > VOLUME_UPLOAD_MAX_SIZE

(***************************************************************************)
(* checkGitType and parseGitUrl, called one after the other on the url of  *)
(* a service as checkConfig does.                                          *)
(***************************************************************************)
\* the call of checkGitType(url)
call_checkGitType ==
  /\ pcPure = "checkGitType"
  /\ ret' = [type |-> checkGitType(args), parsed |-> <<>>]
  /\ pcPure' = "parseGitUrl"
  /\ UNCHANGED args
  /\ UNCHANGED <<heap, fsAvailable, fs, imports>>
  /\ UNCHANGED checkVars
  /\ UNCHANGED volVars

\* the call of parseGitUrl(url)
call_parseGitUrl ==
  /\ pcPure = "parseGitUrl"
  /\ ret' = [ret EXCEPT !.parsed = parseGitUrl(args)]
  /\ pcPure' = "returned"
  /\ UNCHANGED args
  /\ UNCHANGED <<heap, fsAvailable, fs, imports>>
  /\ UNCHANGED checkVars
  /\ UNCHANGED volVars

GitSchemes == {<<"h","t","t","p","s",":","/","/">>, <<"h","t","t","p",":","/","/">>}

GitHosts ==
  {<<"g","i","t","h","u","b",".","c","o","m">>, <<"g","i","t","l","a","b",".","c","o","m">>, <<"b","i","t","b","u","c","k","e","t",".","o","r","g">>, <<"g","i","t","h","u","b","X","c","o","m">>,
   <<"w","w","w",".","g","i","t","h","u","b",".","c","o","m">>, <<"g","i","t","h","u","b",".","c","o","m",".","e","v","i","l",".","o","r","g">>}

GitPaths ==
  {<<>>, <<"/","a","c","m","e">>, <<"/","a","c","m","e","/","a","p","p">>, <<"/","a","c","m","e","/","a","p","p",".","g","i","t">>, <<"/","a",".","g","i","t","/","b">>, <<"/","a","c","m","e","/","a","p","p","/">>,
   <<"/","o","/","a","c","m","e","/","a","p","p",".","g","i","t">>, <<"/","a","c","m","e","/","m","y","-","a","p","p","_","2",".","g","i","t">>}

\* the urls given to the two functions
GitUrls == {s \o h \o p : s \in GitSchemes, h \in GitHosts, p \in GitPaths}

InitGit ==
  /\ args \in GitUrls
  /\ pcPure = "checkGitType"
  /\ ret = <<>>
  /\ heap = [config |-> Config(<<"p">>, <<>>), clone |-> Unallocated]
  /\ deployData = NoDeployData
  /\ isServer = FALSE
  /\ fsAvailable = TRUE
  /\ disk = {}
  /\ fs = null
  /\ pcCheck = "idle"
  /\ iCheck = 0
  /\ _iCheck = 0
  /\ imports = 0
  /\ res = <<>>
  /\ userId = <<>>
  /\ volumes = NoVolumes
  /\ pcVol = "idle"
  /\ _config = ""
  /\ _volumes = <<>>
  /\ error = null
  /\ iVol = 0
  /\ _iVol = 0
  /\ __volumes = <<>>
  /\ pending = NoPending
  /\ fetched = <<>>
  /\ written = <<>>
  /\ result = NoResult
  /\ call = 1

NextGit ==
  \/ call_checkGitType
  \/ call_parseGitUrl

SpecGit == InitGit /\ [][NextGit]_vars

\* the text of the url after "://"
AfterSlashes(url) == Drop(url, IndexOf(url, <<":","/","/">>) + 2)

\* the host of the url: the text after "://" up to the next slash
HostOf(url) ==
  IF IndexOf(AfterSlashes(url), <<"/">>) = 0 THEN AfterSlashes(url)
  ELSE SubSeq(AfterSlashes(url), 1, IndexOf(AfterSlashes(url), <<"/">>) - 1)

\* the path of the url: what follows the host
UrlPathOf(url) == Drop(AfterSlashes(url), Len(HostOf(url)))

\* the text without one ".git" at its end
WithoutTrailingGit(s) ==
  IF EndsWith(s, <<".","g","i","t">>) THEN SubSeq(s, 1, Len(s) - 4) ELSE s

\* the segments of a path, split at its slashes
RECURSIVE Segments(_)
Segments(path) ==
  IF path = <<>> THEN <<>>
  ELSE LET rest == Drop(path, 1)
           n == IF IndexOf(rest, <<"/">>) = 0 THEN Len(rest)
                ELSE IndexOf(rest, <<"/">>) - 1
       IN <<SubSeq(rest, 1, n)>> \o Segments(Drop(rest, n))

\* github or gitlab by the host of the url
TypeByHost(url) ==
  IF HostOf(url) = <<"g","i","t","h","u","b",".","c","o","m">> THEN "github"
  ELSE IF HostOf(url) = <<"g","i","t","l","a","b",".","c","o","m">> THEN "gitlab"
  ELSE null

\* the last two segments of the path without a trailing ".git"
LastTwoSegments(url) ==
  LET segs == Segments(UrlPathOf(WithoutTrailingGit(url)))
      n == Len(segs)
  IN IF n < 2 \/ segs[n] = <<>> \/ segs[n - 1] = <<>>
     THEN [isNull |-> TRUE, user |-> <<>>, project |-> <<>>]
     ELSE [isNull |-> FALSE, user |-> segs[n - 1], project |-> segs[n]]

\* C17: checkGitType gives github or gitlab exactly for the hosts github.com
\* and gitlab.com and null for any other; parseGitUrl strips only a trailing
\* ".git" and gives the second-to-last and the last path segment as user
\* and project, or null when one of them is absent
C17_GitClassifyAndParse ==
  pcPure = "returned" =>
    /\ ret.type = TypeByHost(args)
    /\ ret.parsed = LastTwoSegments(args)

(***************************************************************************)
(* computeCostService.  A number that / produced is carried as the         *)
(* fraction n/d.                                                           *)
(***************************************************************************)
\* sizes.findIndex((item) => item.name === serviceSize), -1 when none
findIndex(sizes, serviceSize) ==
  IF \E k \in 1..Len(sizes) : sizes[k].name = serviceSize
  THEN (CHOOSE k \in 1..Len(sizes) :
          /\ sizes[k].name = serviceSize
          /\ \A j \in 1..(k - 1) : sizes[j].name # serviceSize) - 1
  ELSE 0 - 1

\* parseInt((n / d).toFixed(0), 10) for d > 0: the nearest integer, a half
\* goes away from zero
toFixed0(n, d) ==
  IF n >= 0 THEN (2 * n + d) \div (2 * d)
  ELSE 0 - ((2 * (0 - n) + d) \div (2 * d))

\* the coefficient has a floor of one half
computeCostService_floor(serviceSize, sizes, baseCost, baseValue) ==
  LET index == findIndex(sizes, serviceSize)
      value == sizes[index + 1].memory.value
      month == IF 2 * (13 - index) < 13
               THEN toFixed0(value * baseCost * 100, 2 * baseValue)
               ELSE toFixed0(value * baseCost * 100 * (13 - index), 13 * baseValue)
  IN IF index = 0 - 1
     THEN [isNull |-> TRUE, month |-> 0, hour |-> [n |-> 0, d |-> 1],
           minute |-> [n |-> 0, d |-> 1]]
     ELSE [isNull |-> FALSE, month |-> month,
           hour |-> [n |-> month, d |-> 30 * 24],
           minute |-> [n |-> month, d |-> 30 * 24 * 60]]

\* computeCostService(serviceSize, { sizes, baseCost, baseValue }): coeff is
\* 1 - index / 1.3 / 10, that is (13 - index) / 13
computeCostService(serviceSize, sizes, baseCost, baseValue) ==
  LET index == findIndex(sizes, serviceSize)
      value == sizes[index + 1].memory.value
      month == toFixed0(value * baseCost * 100 * (13 - index), 13 * baseValue)
  IN IF index = 0 - 1
     THEN [isNull |-> TRUE, month |-> 0, hour |-> [n |-> 0, d |-> 1],
           minute |-> [n |-> 0, d |-> 1]]
     ELSE [isNull |-> FALSE, month |-> month,
           hour |-> [n |-> month, d |-> 30 * 24],
           minute |-> [n |-> month, d |-> 30 * 24 * 60]]

\* the call of computeCostService
call_computeCostService ==
  /\ pcPure = "computeCostService"
  /\ ret' = computeCostService(args.serviceSize, args.sizes, args.baseCost, args.baseValue)
  /\ pcPure' = "returned"
  /\ UNCHANGED args
  /\ UNCHANGED <<heap, fsAvailable, fs, imports>>
  /\ UNCHANGED checkVars
  /\ UNCHANGED volVars

\* the ten sizes of the catalog with their memory
AllSizes ==
  <<[name |-> "pico", memory |-> [value |-> 64]],
    [name |-> "nano", memory |-> [value |-> 128]],
    [name |-> "micro", memory |-> [value |-> 256]],
    [name |-> "mili", memory |-> [value |-> 512]],
    [name |-> "santi", memory |-> [value |-> 1024]],
    [name |-> "deci", memory |-> [value |-> 2048]],
    [name |-> "deca", memory |-> [value |-> 4096]],
    [name |-> "hecto", memory |-> [value |-> 8192]],
    [name |-> "kilo", memory |-> [value |-> 16384]],
    [name |-> "mega", memory |-> [value |-> 32768]]>>

\* the catalogs: all sizes, or the first of them
CostCatalogs == {AllSizes, SubSeq(AllSizes, 1, 3)}

SizeNames == {AllSizes[k].name : k \in 1..Len(AllSizes)} \cup {"giga"}

InitCost ==
  /\ \E s \in SizeNames, c \in CostCatalogs, bc \in {1, 3, 7}, bv \in {512, 1000} :
       args = [serviceSize |-> s, sizes |-> c, baseCost |-> bc, baseValue |-> bv]
  /\ pcPure = "computeCostService"
  /\ ret = <<>>
  /\ heap = [config |-> Config(<<"p">>, <<>>), clone |-> Unallocated]
  /\ deployData = NoDeployData
  /\ isServer = FALSE
  /\ fsAvailable = TRUE
  /\ disk = {}
  /\ fs = null
  /\ pcCheck = "idle"
  /\ iCheck = 0
  /\ _iCheck = 0
  /\ imports = 0
  /\ res = <<>>
  /\ userId = <<>>
  /\ volumes = NoVolumes
  /\ pcVol = "idle"
  /\ _config = ""
  /\ _volumes = <<>>
  /\ error = null
  /\ iVol = 0
  /\ _iVol = 0
  /\ __volumes = <<>>
  /\ pending = NoPending
  /\ fetched = <<>>
  /\ written = <<>>
  /\ result = NoResult
  /\ call = 1

NextCost == call_computeCostService

SpecCost == InitCost /\ [][NextCost]_vars

\* the position of the size in the catalog, counted from 0
PositionOf(name, sizes) ==
  CHOOSE k \in 0..(Len(sizes) - 1) : sizes[k + 1].name = name

\* C18: computeCostService returns null exactly when the size is not in the
\* catalog; otherwise month is memoryValue / (baseValue / (baseCost * 100 *
\* (1 - index / 13))) rounded to the nearest integer, hour is month / 720
\* and minute is hour / 60; the coefficient has no floor
C18_CostFormula ==
  pcPure = "returned" =>
    LET known == \E k \in 1..Len(args.sizes) : args.sizes[k].name = args.serviceSize
        index == PositionOf(args.serviceSize, args.sizes)
        num == args.sizes[index + 1].memory.value * args.baseCost * 100 * (13 - index)
        den == 13 * args.baseValue
    IN /\ ret.isNull <=> ~known
       /\ known =>
            /\ (2 * ret.month - 1) * den <= 2 * num
            /\ 2 * num < (2 * ret.month + 1) * den
            /\ ret.hour.n * 720 = ret.month * ret.hour.d
            /\ ret.minute.n * 60 * ret.hour.d = ret.hour.n * ret.minute.d

\* C18 witness: the cost of the last of the ten sizes, where the coefficient
\* is 4/13, was computed
C18_Witness ==
  /\ pcPure = "returned"
  /\ args.serviceSize = "mega"
  /\ args.sizes = AllSizes
  /\ args.baseCost = 3
  /\ args.baseValue = 1000
  /\ ~ret.isNull
  /\ ret.month = 3025

(***************************************************************************)
(* Properties of a materialize call that fails.                            *)
(***************************************************************************)
\* a materialize call returned after an entry failed: the entry is number
\* _iVol of service number iVol - 1
FailedReturned == MaterializeReturned /\ error # null /\ result.config = "clone"

\* C19: after the failure of an entry the returned config has, for the
\* service of that entry, the failing entry and the later ones as they were
\* declared, every later service has its declared list, and no service has
\* fewer entries than it declared
C19_FailureKeepsEntries ==
  FailedReturned =>
    \A s \in 1..Len(heap.config.services) :
      LET declared == VolumesOf(heap.config.services[s].val)
          returned == VolumesOf(heap.clone.services[s].val)
      IN /\ Len(returned.list) = Len(declared.list)
         /\ s = iVol - 1 =>
              \A j \in _iVol..Len(declared.list) : returned.list[j] = declared.list[j]
         /\ s > iVol - 1 => returned = declared

\* the http(s) entries of the config, by service and then by declaration
RECURSIVE HttpEntries(_)
HttpEntries(services) ==
  IF services = <<>> THEN <<>>
  ELSE SelectSeq(VolumesOf(services[1].val).list, IsHttp)
       \o HttpEntries(Tail(services))

\* the url that is fetched for a well-formed http(s) entry
UrlOf(entry) ==
  SubSeq(entry, 1, Len(entry) - Len(AfterScheme(entry))) \o LocalOf(AfterScheme(entry))

\* the fetches so far are those of the first http(s) entries, in order
FetchedInOrder ==
  LET entries == HttpEntries(heap.config.services)
  IN /\ Len(fetched) <= Len(entries)
     /\ \A k \in 1..Len(fetched) :
          ~Malformed(entries[k]) /\ fetched[k] = UrlOf(entries[k])

\* a fetch starts only when no other is awaited, and every file written
\* belongs to a fetch that was started
OneAtATime ==
  /\ Len(fetched') > Len(fetched) =>
       /\ pending = NoPending
       /\ pcVol = "volume"
       /\ Len(fetched') = Len(fetched) + 1
  /\ Len(written') > Len(written) =>
       /\ pcVol = "getFile"
       /\ Len(written') <= Len(fetched)

\* once an entry failed, the call fetches and writes nothing more
NothingAfterFailure ==
  (error # null /\ call' = call) => (fetched' = fetched /\ written' = written)

\* C20: in a materialize call the remote entries are fetched one at a time,
\* by service and then by declaration, and after the first entry that fails
\* no fetch and no file write follows in that call
C20_SequentialThenAbort ==
  /\ [](pcVol # "idle" /\ ~volumes.defined => FetchedInOrder)
  /\ [][OneAtATime /\ NothingAfterFailure]_vars

\* C20 witness: after a fetch that was written, the fetch of the next entry
\* failed and a later remote entry was never fetched
C20_Witness ==
  /\ FailedReturned
  /\ Len(written) >= 1
  /\ Len(fetched) > Len(written)
  /\ Len(fetched) < Len(HttpEntries(heap.config.services))

(***************************************************************************)
(* getFile, one step per promise callback: the callback of fetch(url),     *)
(* then one callback per reader.read().  A chunk is the number of bytes    *)
(* of the Uint8Array that the read delivers; the streaming decoder turns   *)
(* the chunks into pieces of text whose concatenation is the text of the   *)
(* concatenated bytes, so a piece is named by the chunk it comes from.     *)
(***************************************************************************)
MaxChunks == 3

\* the state of one call of getFile before fetch answers
NoReads == [totalBytes |-> 0, chunks |-> <<>>, reads |-> 0, resolved |-> 0,
            rejected |-> 0, value |-> <<>>, message |-> ""]

\* reject(new Error(message))
Reject(state, message) ==
  [state EXCEPT !.rejected = @ + 1, !.message = message]

\* the callback of reader.read() with the cap compared by >=
onRead_atLeast(state, response, maxSize) ==
  IF state.reads > Len(response.chunks)
  THEN [state EXCEPT !.resolved = @ + 1, !.value = state.chunks]
  ELSE LET value == response.chunks[state.reads]
           totalBytes == state.totalBytes + value
       IN IF totalBytes >= maxSize
          THEN Reject([state EXCEPT !.totalBytes = totalBytes],
                      "Response size exceeds the maximum limit")
          ELSE [state EXCEPT !.totalBytes = totalBytes,
                             !.chunks = Append(@, value),
                             !.reads = @ + 1]

\* the callback of reader.read(): done resolves, a chunk is counted, then
\* either rejected or pushed and followed by the next readStream()
onRead(state, response, maxSize) ==
  IF state.reads > Len(response.chunks)
  THEN [state EXCEPT !.resolved = @ + 1, !.value = state.chunks]
  ELSE LET value == response.chunks[state.reads]
           totalBytes == state.totalBytes + value
       IN IF totalBytes > maxSize
          THEN Reject([state EXCEPT !.totalBytes = totalBytes],
                      "Response size exceeds the maximum limit")
          ELSE [state EXCEPT !.totalBytes = totalBytes,
                             !.chunks = Append(@, value),
                             !.reads = @ + 1]

\* fetch(url) answers: its rejection, a status that is not ok, a missing
\* body, or the first readStream()
getFile_fetch ==
  /\ pcPure = "getFile"
  /\ IF ~args.response.fetched
     THEN ret' = Reject(ret, "fetch failed") /\ pcPure' = "settled"
     ELSE IF ~args.response.ok
     THEN ret' = Reject(ret, "HTTP error! status") /\ pcPure' = "settled"
     ELSE IF ~args.response.body
     THEN ret' = Reject(ret, "Response body is unused") /\ pcPure' = "settled"
     ELSE ret' = [ret EXCEPT !.reads = 1] /\ pcPure' = "readStream"
  /\ UNCHANGED args
  /\ UNCHANGED <<heap, fsAvailable, fs, imports>>
  /\ UNCHANGED checkVars
  /\ UNCHANGED volVars

\* reader.read() answers with done or with a chunk
getFile_read ==
  /\ pcPure = "readStream"
  /\ ret' = onRead(ret, args.response, args.maxSize)
  /\ pcPure' = IF ret'.resolved + ret'.rejected > 0 THEN "settled" ELSE "readStream"
  /\ UNCHANGED args
  /\ UNCHANGED <<heap, fsAvailable, fs, imports>>
  /\ UNCHANGED checkVars
  /\ UNCHANGED volVars

\* reader.read() rejects: .catch(reject)
getFile_readError ==
  /\ pcPure = "readStream"
  /\ ret' = Reject(ret, "read failed")
  /\ pcPure' = "settled"
  /\ UNCHANGED args
  /\ UNCHANGED <<heap, fsAvailable, fs, imports>>
  /\ UNCHANGED checkVars
  /\ UNCHANGED volVars

\* the sizes of the chunks of a body
ChunkSizes == {1, 40000, 60000, 60001}

RECURSIVE ChunkLists(_)
ChunkLists(n) ==
  IF n = 0 THEN {<<>>}
  ELSE LET shorter == ChunkLists(n - 1)
       IN shorter \cup {Append(l, c) : l \in {s \in shorter : Len(s) = n - 1},
                                       c \in ChunkSizes}

\* the answers of the network to fetch(url)
FileResponses(max) ==
  {r \in Responses : r.chunks = <<>>}
    \cup {[fetched |-> TRUE, ok |-> TRUE, body |-> TRUE, chunks |-> l] :
            l \in ChunkLists(max)}

InitFile ==
  /\ \E r \in FileResponses(MaxChunks) :
       args = [response |-> r, maxSize |-> VOLUME_UPLOAD_MAX_SIZE]
  /\ pcPure = "getFile"
  /\ ret = NoReads
  /\ heap = [config |-> Config(<<"p">>, <<>>), clone |-> Unallocated]
  /\ deployData = NoDeployData
  /\ isServer = FALSE
  /\ fsAvailable = TRUE
  /\ disk = {}
  /\ fs = null
  /\ pcCheck = "idle"
  /\ iCheck = 0
  /\ _iCheck = 0
  /\ imports = 0
  /\ res = <<>>
  /\ userId = <<>>
  /\ volumes = NoVolumes
  /\ pcVol = "idle"
  /\ _config = ""
  /\ _volumes = <<>>
  /\ error = null
  /\ iVol = 0
  /\ _iVol = 0
  /\ __volumes = <<>>
  /\ pending = NoPending
  /\ fetched = <<>>
  /\ written = <<>>
  /\ result = NoResult
  /\ call = 1

NextFile ==
  \/ getFile_fetch
  \/ getFile_read
  \/ getFile_readError

SpecFile == InitFile /\ [][NextFile]_vars

\* the bytes of the first n chunks
RECURSIVE Cumulative(_, _)
Cumulative(chunks, n) ==
  IF n = 0 THEN 0 ELSE Cumulative(chunks, n - 1) + chunks[n]

\* the chunk at which the count first exceeds the cap, 0 when none does
FirstExceeding(chunks, maxSize) ==
  LET over == {n \in 1..Len(chunks) : Cumulative(chunks, n) > maxSize}
  IN IF over = {} THEN 0 ELSE CHOOSE n \in over : \A m \in over : n <= m

CapRejected ==
  ret.rejected > 0 /\ ret.message = "Response size exceeds the maximum limit"

\* what holds of a call of getFile at every moment
CapEnforced ==
  LET chunks == args.response.chunks
      first == FirstExceeding(chunks, args.maxSize)
  IN /\ ret.resolved + ret.rejected <= 1
     /\ pcPure = "settled" <=> ret.resolved + ret.rejected = 1
     /\ ret.reads <= Len(chunks) + 1
     /\ first > 0 => ret.reads <= first /\ ret.resolved = 0
     /\ CapRejected => first > 0 /\ ret.reads = first
     /\ pcPure = "settled" /\ first > 0 /\ ret.reads = first
          /\ ret.message # "read failed" => CapRejected
     /\ ret.resolved = 1 =>
          /\ ret.reads = Len(chunks) + 1
          /\ ret.value = chunks
          /\ Cumulative(chunks, Len(chunks)) <= args.maxSize
     /\ pcPure = "settled" /\ ret.reads = Len(chunks) + 1 /\ first = 0
          /\ ret.message # "read failed" => ret.resolved = 1

\* a settled call issues no read and does not settle again
SettledOnce == pcPure = "settled" => ret' = ret

\* C21: getFile settles at most once, never both ways; when a chunk takes
\* the count of bytes above maxSize the promise is rejected at the read that
\* delivers the first such chunk, unless a read failed before, and that read
\* is the last one issued; when the stream ends, which it only does with at
\* most maxSize bytes counted, the promise resolves with all the chunks in
\* order; and once settled no read is issued any more.
C21_CapWhileStreaming ==
  /\ [](pcPure \in {"getFile", "readStream", "settled"} => CapEnforced)
  /\ [][SettledOnce]_vars

\* a body was rejected at its second chunk and its third chunk never read
C21_Witness ==
  /\ pcPure = "settled"
  /\ CapRejected
  /\ ret.reads = 2
  /\ Len(args.response.chunks) = 3

\* a body of exactly maxSize bytes in two chunks has resolved
C21_ResolvedAtCap ==
  /\ pcPure = "settled"
  /\ ret.resolved = 1
  /\ Len(args.response.chunks) = 2
  /\ Cumulative(args.response.chunks, 2) = args.maxSize
(***************************************************************************)
(* checkConfig and changeConfigFileVolumes called together on one config.  *)
(* Both hold  fs = fs !== null ? fs : await new Promise(...)  : the test   *)
(* of fs and the assignment are separated by the await, and the other call *)
(* runs in between.  The steps below cut the two functions at that await;  *)
(* where no promise is awaited the steps of the functions are the ones     *)
(* above.                                                                  *)
(***************************************************************************)
\* the first entry from position from on at which the loop over the volumes
\* of checkConfig evaluates the assignment of fs, 0 when there is none
NextAcquiring(service, from) ==
  IF ~Has(service, "volumes") THEN 0
  ELSE LET at == {k \in from..Len(service.volumes) :
                    /\ \A j \in 1..k : Truthy(service.volumes[j])
                                        /\ IsString(service.volumes[j])
                    /\ VOLUME_LOCAL_REGEX(service.volumes[k]) # NoMatch}
       IN IF at = {} THEN 0 ELSE CHOOSE k \in at : \A m \in at : k <= m

\* checkConfig finds fs null at a volume entry: the promise is made, its
\* executor calls import('fs') when the process has a filesystem, and the
\* function waits
checkConfig_await ==
  /\ pcCheck = "loop"
  /\ iCheck <= Len(Keys(heap.config.services))
  /\ Truthy(Keys(heap.config.services)[iCheck])
  /\ LET service == Lookup(heap.config.services, Keys(heap.config.services)[iCheck])
     IN /\ ~service.isNull
        /\ NextAcquiring(service, _iCheck) # 0
        /\ _iCheck' = NextAcquiring(service, _iCheck)
  /\ fs = null
  /\ imports' = IF fsAvailable THEN imports + 1 ELSE imports
  /\ pcCheck' = "import"
  /\ UNCHANGED <<heap, fsAvailable, fs, deployData, isServer, disk, iCheck, res>>
  /\ UNCHANGED volVars
  /\ UNCHANGED pureVars

\* the promise of checkConfig resolves: its value is assigned to fs and the
\* loop goes on with the next entry
checkConfig_import ==
  /\ pcCheck = "import"
  /\ fs' = IF fsAvailable THEN "fs" ELSE null
  /\ _iCheck' = _iCheck + 1
  /\ pcCheck' = "loop"
  /\ UNCHANGED <<heap, fsAvailable, imports, deployData, isServer, disk, iCheck, res>>
  /\ UNCHANGED volVars
  /\ UNCHANGED pureVars

\* the turn of the loop over serviceKeys from the point where no promise is
\* awaited any more: fs is set, or no entry that tests it is left
checkConfig_rest ==
  /\ pcCheck = "loop"
  /\ iCheck <= Len(Keys(heap.config.services))
  /\ Truthy(Keys(heap.config.services)[iCheck])
  /\ LET service == Lookup(heap.config.services, Keys(heap.config.services)[iCheck])
     IN IF service.isNull THEN TRUE
        ELSE IF fs # null THEN TRUE
        ELSE NextAcquiring(service, _iCheck) = 0
  /\ checkConfig_service

\* getFile has resolved and changeConfigFileVolumes finds fs null: the
\* promise is made, its executor calls import('fs') when the process has a
\* filesystem, and the function waits with the file in hand
ccfv_await ==
  /\ pcVol = "getFile"
  /\ fs = null
  /\ \E response \in Responses :
       LET file == getFile(response, VOLUME_UPLOAD_MAX_SIZE)
       IN /\ file.resolved
          /\ pending' = [http |-> pending.http, volume |-> pending.volume,
                         local |-> pending.local, filename |-> pending.filename,
                         remote |-> pending.remote, file |-> file.bytes]
  /\ imports' = IF fsAvailable THEN imports + 1 ELSE imports
  /\ pcVol' = "import"
  /\ UNCHANGED <<heap, userId, volumes, fsAvailable, fs, _config, _volumes, error,
                 iVol, _iVol, __volumes, fetched, written, result, call>>
  /\ UNCHANGED checkVars
  /\ UNCHANGED pureVars

\* the promise of changeConfigFileVolumes resolves: its value is assigned to
\* fs, the file is written when fs is set, and the entry is rewritten
ccfv_import ==
  /\ pcVol = "import"
  /\ LET serviceKey == Keys(heap.config.services)[iVol]
         path == tmpFilePath(userId, heap.config.name, serviceKey,
                             pending.filename)
         handle == IF fsAvailable THEN "fs" ELSE null
     IN /\ fs' = handle
        /\ written' = IF handle # null
                      THEN Append(written, [path |-> path, bytes |-> pending.file])
                      ELSE written
        /\ heap' = [heap EXCEPT ![_config].services =
                      PushVolume(@, serviceKey, path \o <<":">> \o pending.remote)]
        /\ _volumes' = [_volumes EXCEPT ![serviceKey] =
                          Append(@, pending.http \o pending.volume)]
  /\ _iVol' = _iVol + 1
  /\ pcVol' = "volume"
  /\ pending' = NoPending
  /\ UNCHANGED <<userId, volumes, fsAvailable, imports, _config, error, iVol,
                 __volumes, fetched, result, call>>
  /\ UNCHANGED checkVars
  /\ UNCHANGED pureVars

\* getFile settles and no promise is awaited: the fetch failed, or fs is set
ccfv_settled ==
  /\ pcVol = "getFile"
  /\ ccfv_getFile
  /\ IF fs # null THEN TRUE ELSE error' # null

\* the volume lists of the configs given to both functions
FsVolumeLists(n) == UNION {[1..m -> {V_local, V_https}] : m \in 0..n}

\* one service, or two of which the second fetches one file
FsConfigs(max) ==
  {Config(<<"p">>, <<[key |-> K_a, val |-> WithVolumes(NodeService, a.defined, a.list)]>>)
     : a \in {[defined |-> FALSE, list |-> <<>>]}
               \cup {[defined |-> TRUE, list |-> l] : l \in FsVolumeLists(max)}}
  \cup
  {Config(<<"p">>, <<[key |-> K_a, val |-> Set(NodeService, "volumes", l)],
                     [key |-> K_b, val |-> Set(NodeService, "volumes", <<V_https>>)]>>)
     : l \in FsVolumeLists(max)}

InitFs ==
  /\ \E c \in FsConfigs(MaxVolumes) : heap = [config |-> c, clone |-> Unallocated]
  /\ deployData = Catalog
  /\ isServer = FALSE
  /\ fsAvailable \in BOOLEAN
  /\ disk = {}
  /\ fs = null
  /\ pcCheck = "call"
  /\ iCheck = 0
  /\ _iCheck = 0
  /\ imports = 0
  /\ res = <<>>
  /\ userId = <<"u">>
  /\ volumes = NoVolumes
  /\ pcVol = "call"
  /\ _config = ""
  /\ _volumes = <<>>
  /\ error = null
  /\ iVol = 0
  /\ _iVol = 0
  /\ __volumes = <<>>
  /\ pending = NoPending
  /\ fetched = <<>>
  /\ written = <<>>
  /\ result = NoResult
  /\ call = 1
  /\ pcPure = "idle"
  /\ args = <<>>
  /\ ret = <<>>

NextFs ==
  \/ checkConfig_enter
  \/ checkConfig_await
  \/ checkConfig_import
  \/ checkConfig_rest
  \/ checkConfig_sort
  \/ ccfv_enter
  \/ ccfv_service
  \/ ccfv_volume
  \/ ccfv_await
  \/ ccfv_import
  \/ ccfv_settled
  \/ ccfv_return

SpecFs == InitFs /\ [][NextFs]_vars

\* once set, fs keeps its value
FsKept == fs # null => fs' = fs

\* C22: over the interleavings of a call of checkConfig and a call of
\* changeConfigFileVolumes, import('fs') is performed at most once, and fs,
\* once it is not null, never gets another value.
C22_FsInitializedOnce ==
  /\ [](imports <= 1)
  /\ [][FsKept]_vars

\* both calls have finished and import('fs') was performed by each of them
C22_ImportedTwice ==
  /\ pcCheck = "returned"
  /\ pcVol = "returned"
  /\ imports = 2

(***************************************************************************)
(* checkConfig on custom services whose one port gives a location, a       *)
(* proxy_path or a static location.                                        *)
(***************************************************************************)
\* the values of location, proxy_path and static.location
LocationInputs ==
  {<<"/","a">>, <<"a">>, <<"/","a","/","/","b">>, <<"/","a"," ","b">>, <<"/","a","-","b">>, <<"/","a","^","b">>, <<"/","A","_","1","/","b">>}

LocationFields == {"location", "proxy_path", "static"}

\* a custom service with one port that has the value in the field
S_nodeLocation(field, value) ==
  LET port == Set(Set(EmptyPort, "port", <<"8","0">>), "type", "http")
  IN Set(S_node, "ports",
         <<IF field = "static"
           THEN Set(port, "static",
                    <<Set(Set(EmptyStatic, "location", value), "path", <<"d","i","s","t">>)>>)
           ELSE Set(port, field, value)>>)

LocationConfigs(max) ==
  {Config(<<"p">>, [k \in 1..n |->
                  [key |-> keys[k],
                   val |-> S_nodeLocation(choice[k][1], choice[k][2])]]) :
     <<n, keys, choice>> \in
       UNION {{<<m, ks, c>> : ks \in KeyLists,
                              c \in [1..m -> LocationFields \X LocationInputs]}
                : m \in 1..max}}

InitLoc ==
  /\ \E c \in LocationConfigs(MaxServices) : heap = [config |-> c, clone |-> Unallocated]
  /\ deployData = Catalog
  /\ isServer \in BOOLEAN
  /\ fsAvailable = TRUE
  /\ disk = {}
  /\ fs = null
  /\ pcCheck = "call"
  /\ iCheck = 0
  /\ _iCheck = 0
  /\ imports = 0
  /\ res = <<>>
  /\ userId = <<>>
  /\ volumes = NoVolumes
  /\ pcVol = "idle"
  /\ _config = ""
  /\ _volumes = <<>>
  /\ error = null
  /\ iVol = 0
  /\ _iVol = 0
  /\ __volumes = <<>>
  /\ pending = NoPending
  /\ fetched = <<>>
  /\ written = <<>>
  /\ result = NoResult
  /\ call = 1
  /\ pcPure = "idle"
  /\ args = <<>>
  /\ ret = <<>>

SpecLoc == InitLoc /\ [][NextCheck]_vars

\* the characters [/0-9A-Za-z-_]
AllowedLocationChar == {"/", "-", "_"} \cup Digit \cup Upper \cup Lower

\* the value breaks one of the three rules
BreaksLocationRules(value) ==
  \/ \E k \in 1..Len(value) : value[k] \notin AllowedLocationChar
  \/ Len(value) = 0
  \/ value[1] # "/"
  \/ \E k \in 1..(Len(value) - 1) : value[k] = "/" /\ value[k + 1] = "/"

\* res has a fatal finding of the three rules on that value of the service
LocationFinding(key, value) ==
  \E f \in 1..Len(res) :
    /\ res[f].msg \in {"has unallowed symbols", "have wrong start",
                       "have two or more slushes together"}
    /\ res[f].item = key
    /\ res[f].about = value
    /\ res[f].exit

\* the values of location, proxy_path and static[].location of a port
LocationsOf(port) ==
  (IF TruthyStr(port, "location") THEN {port.location} ELSE {})
  \cup (IF TruthyStr(port, "proxy_path") THEN {port.proxy_path} ELSE {})
  \cup (IF Has(port, "static")
        THEN {port.static[s].location :
                s \in {t \in 1..Len(port.static) : TruthyStr(port.static[t], "location")}}
        ELSE {})

\* C23: every location, proxy_path and static location of a port of a
\* custom service that has a character outside [/0-9A-Za-z-_], does not
\* start with a slash or has two slashes in a row gets a fatal finding
C23_LocationRules ==
  LoopCompleted =>
    \A k \in 1..Len(Services) :
      (IsCustom(Services[k].val) /\ Has(Services[k].val, "ports"))
      => \A p \in 1..Len(Services[k].val.ports) :
           \A value \in LocationsOf(Services[k].val.ports[p]) :
             BreaksLocationRules(value) => LocationFinding(Services[k].key, value)

(***************************************************************************)
(* checkConfig on custom services with lists of local and remote volumes.  *)
(***************************************************************************)
\* d/f:/q : the file f of a directory
V_dirF == <<"d","/","f",":","/","q">>

\* g:/q
V_localG == <<"g",":","/","q">>

\* https://h/g:/q
V_httpsG == Https \o <<"h","/","g",":","/","q">>

\* http://h/f:/q
V_httpF == Http \o <<"h","/","f",":","/","q">>

NameVolumeInputs == {V_local, V_dirF, V_localG, V_https, V_httpsG, V_httpF}

NameVolumeLists(n) == UNION {[1..m -> NameVolumeInputs] : m \in 0..n}

\* one service, or two of which the second has the file f twice
NameConfigs(max) ==
  {Config(<<"p">>, <<[key |-> K_app, val |-> Set(S_node, "volumes", l)]>>)
     : l \in NameVolumeLists(max)}
  \cup
  {Config(<<"p">>, <<[key |-> K_app, val |-> Set(S_node, "volumes", l)],
                 [key |-> K_db, val |-> Set(S_node, "volumes", <<V_local, V_dirF>>)]>>)
     : l \in NameVolumeLists(max)}

InitName ==
  /\ \E c \in NameConfigs(MaxVolumes) : heap = [config |-> c, clone |-> Unallocated]
  /\ deployData = Catalog
  /\ \/ isServer = FALSE /\ fsAvailable \in BOOLEAN
     \/ isServer = TRUE /\ fsAvailable = TRUE
  /\ disk = {}
  /\ fs = null
  /\ pcCheck = "call"
  /\ iCheck = 0
  /\ _iCheck = 0
  /\ imports = 0
  /\ res = <<>>
  /\ userId = <<>>
  /\ volumes = NoVolumes
  /\ pcVol = "idle"
  /\ _config = ""
  /\ _volumes = <<>>
  /\ error = null
  /\ iVol = 0
  /\ _iVol = 0
  /\ __volumes = <<>>
  /\ pending = NoPending
  /\ fetched = <<>>
  /\ written = <<>>
  /\ result = NoResult
  /\ call = 1
  /\ pcPure = "idle"
  /\ args = <<>>
  /\ ret = <<>>

SpecName == InitName /\ [][NextCheck]_vars

\* the file name of a volume entry: the last segment of its local part,
\* which for an http(s) entry is what follows the scheme up to the colon
FileNameOf(entry) == basename(LocalPathOf(AfterScheme(entry)))

\* two entries of the service have the same file name
SameFileName(service) ==
  /\ Has(service, "volumes")
  /\ \E i, j \in 1..Len(service.volumes) :
       /\ i < j
       /\ FileNameOf(service.volumes[i]) = FileNameOf(service.volumes[j])

\* res has the fatal finding of a repeated file name on the service
SameNameFinding(key) ==
  \E f \in 1..Len(res) :
    /\ res[f].msg = "Two or more volumes with the same file name"
    /\ res[f].item = key
    /\ res[f].exit

\* C24: a service has the fatal finding of a repeated file name exactly
\* when two of its volume entries have local parts with the same basename,
\* the local part of an http(s) entry being what follows its scheme
C24_SameFileNameIffRepeated ==
  LoopCompleted =>
    \A k \in 1..Len(Services) :
      SameNameFinding(Services[k].key) <=> SameFileName(Services[k].val)

(***************************************************************************)
(* Properties of checkConfig on dependents that are not active.            *)
(***************************************************************************)
\* some active custom service declares a depends_on that names key
NamedByActiveCustom(key) ==
  \E k \in 1..Len(Services) :
    /\ IsCustom(Services[k].val)
    /\ Active(Services[k].val)
    /\ DependsOn(Services[k].val, key)

\* the service called key is active
ActiveKey(key) ==
  \E k \in 1..Len(Services) : Services[k].key = key /\ Active(Services[k].val)

\* C25: only active services count as dependents of an active common
\* service: one of a private type without ports that no active custom
\* service depends on has the advisory that none depends on it, also when a
\* custom service that is not active names it, and every finding of the
\* comparison of variables is about a dependent that is active
C25_OnlyActiveDependents ==
  LoopCompleted =>
    /\ \A k \in 1..Len(Services) :
         (/\ ActivePrivateCommon(Services[k].val)
          /\ ~(Has(Services[k].val, "ports") /\ Len(Services[k].val.ports) > 0)
          /\ ~NamedByActiveCustom(Services[k].key))
         => NoneDependsAdvisory(Services[k].key)
    /\ \A f \in 1..Len(res) : IsMirrorFinding(res[f]) => ActiveKey(res[f].other)

(***************************************************************************)
(* changeConfigFileVolumes in materialize mode on remote entries whose     *)
(* file names repeat or hold the separator of the temporary name.          *)
(***************************************************************************)
K_a_b == <<"a","_","b">>

\* https://h/b_f:/r
V_httpsBF == Https \o <<"h","/","b","_","f",":","/","r">>

TmpVolumeInputs == {V_local, V_https, V_httpF, V_httpsBF}

TmpVolumeLists(n) == UNION {[1..m -> TmpVolumeInputs] : m \in 0..n}

\* the service a, alone or in front of the service a_b that fetches f
TmpConfigs(max) ==
  {Config(<<"p">>, <<[key |-> K_a, val |-> Set(NodeService, "volumes", l)]>>)
     : l \in TmpVolumeLists(max)}
  \cup
  {Config(<<"p">>, <<[key |-> K_a, val |-> Set(NodeService, "volumes", l)],
                 [key |-> K_a_b, val |-> Set(NodeService, "volumes", <<V_https>>)]>>)
     : l \in TmpVolumeLists(max)}

InitTmp ==
  /\ \E c \in TmpConfigs(MaxVolumes) : heap = [config |-> c, clone |-> Unallocated]
  /\ userId = <<"u">>
  /\ volumes = NoVolumes
  /\ fsAvailable \in BOOLEAN
  /\ fs = null
  /\ pcVol = "call"
  /\ _config = ""
  /\ _volumes = <<>>
  /\ error = null
  /\ iVol = 0
  /\ _iVol = 0
  /\ __volumes = <<>>
  /\ pending = NoPending
  /\ fetched = <<>>
  /\ written = <<>>
  /\ result = NoResult
  /\ call = 1
  /\ pcPure = "idle"
  /\ args = <<>>
  /\ ret = <<>>
  /\ deployData = NoDeployData
  /\ isServer = FALSE
  /\ disk = {}
  /\ pcCheck = "idle"
  /\ iCheck = 0
  /\ _iCheck = 0
  /\ imports = 0
  /\ res = <<>>

NextTmp ==
  \/ ccfv_enter
  \/ ccfv_service
  \/ ccfv_volume
  \/ ccfv_getFile
  \/ ccfv_return

SpecTmp == InitTmp /\ [][NextTmp]_vars

\* the remote entries that the returned config holds rewritten: the service
\* and the position of each
RewrittenEntries ==
  {<<s, j>> \in (1..Len(heap.config.services)) \X (1..(MaxVolumes + 1)) :
     /\ Has(heap.config.services[s].val, "volumes")
     /\ j <= Len(heap.config.services[s].val.volumes)
     /\ IsHttp(heap.config.services[s].val.volumes[j])
     /\ j <= Len(heap.clone.services[s].val.volumes)
     /\ heap.clone.services[s].val.volumes[j] # heap.config.services[s].val.volumes[j]}

\* the temporary path of a rewritten entry of the returned config
TempPathOf(e) == LocalPathOf(heap.clone.services[e[1]].val.volumes[e[2]])

\* C26: in one call of materialize mode no two writes go to the same
\* temporary path, and no two rewritten entries of the returned config,
\* of different services or at different positions, name the same
\* temporary path, so that the path tells the service and the file name
C26_DistinctTempPaths ==
  (MaterializeReturned /\ result.config = "clone") =>
    /\ \A i, j \in 1..Len(written) :
         i # j => written[i].path # written[j].path
    /\ \A d, e \in RewrittenEntries :
         d # e => TempPathOf(d) # TempPathOf(e)

====
